---- MODULE Spec2Model ----
(***************************************************************************)
(* A model of gowsdl: the resolver of external XSD documents               *)
(* (unmarshal / resolveXSDExternals), the generation orchestrator (Start), *)
(* the command-line program (main) and the type mapper (toGoType).         *)
(***************************************************************************)
EXTENDS Integers, Sequences, FiniteSets, TLC

VARIABLES
    world,       \* the documents the fetcher can reach, other than the WSDL
    wsdlFile,    \* the WSDL document at g.loc
    nsToPkg,     \* g.nsToPkg, a function from namespaces to package names
    pc,          \* position of main / Start / unmarshal
    err,         \* the error unmarshal returned ("" for none)
    schemas,     \* g.wsdl.Types.Schemas
    newSchemas,  \* unmarshal's local newSchemas
    rootIdx,     \* index of unmarshal's loop over the root schemas
    stack,       \* call stack of resolveXSDExternals, innermost call last
    visited,     \* g.resolvedXSDExternals (the keys mapped to true)
    level,       \* g.currentRecursionLevel
    fetchLog,    \* history: the locations handed to fetchFile, in order
    decodeLog,   \* history: the locations whose bytes were decoded, in order
    task,        \* the three goroutines of Start: "idle", "running" or "done"
    todo,        \* namespaces a loop over g.nsToPkg has still to visit
    result,      \* the GenerationResult of Start: the parts that are set
    dirs,        \* directories known to exist
    files,       \* the output files main has created
    currentNamespace,     \* g.currentNamespace
    currentNamespaceMap,  \* g.currentNamespaceMap, from prefixes to namespaces
    imports,     \* g.imports, from namespaces to lists of packages
    call,        \* history: the last call of toGoType and what it returned
    run,         \* per goroutine of Start: the template execution it is in
    generated,   \* the bytes of the GenerationResult: what each part was made from
    exportAllTypes,  \* the flag NewGoWSDL sets g.makePublicFn from
    ident,       \* history: the last identifier a template sanitized, and the result
    decoder,     \* the xml.Decoder inside XSDComplexType.UnmarshalXML: input and position
    ct           \* the XSDComplexType being decoded

vars == <<world, wsdlFile, nsToPkg, pc, err, schemas, newSchemas, rootIdx,
          stack, visited, level, fetchLog, decodeLog, task, todo, result,
          dirs, files, currentNamespace, currentNamespaceMap, imports, call,
          run, generated, exportAllTypes, ident, decoder, ct>>

resolverVars == <<world, wsdlFile, nsToPkg, err, schemas, newSchemas, rootIdx,
                  stack, visited, level, fetchLog, decodeLog>>

tmplVars == <<run, generated>>

genVars == <<task, todo, result, dirs, files, run, generated>>

typeVars == <<currentNamespace, currentNamespaceMap, imports, call>>

nameVars == <<exportAllTypes, ident>>

decodeVars == <<decoder, ct>>

(***************************************************************************)
(* Bounds of the model.                                                    *)
(***************************************************************************)
StarWidth == 22   \* children of the root in the wide-and-shallow world
MaxStack  == 24   \* cap on the depth of the modelled call stack

(***************************************************************************)
(* Program constants.                                                      *)
(***************************************************************************)
maxRecursion == 20

(***************************************************************************)
(* Location: a directory and a file name.  Location.Parse resolves a       *)
(* reference against the location it is called on; Location.String is the  *)
(* key of the visited set.                                                 *)
(***************************************************************************)
Loc(d, n) == [d |-> d, n |-> n]

NoLoc == [d |-> 0 - 1, n |-> 0 - 1]

Rel(d, n) == [k |-> "rel", d |-> d, n |-> n]

Abs(d, n) == [k |-> "abs", d |-> d, n |-> n]

EmptyRef == [k |-> "none", d |-> 0, n |-> 0]

BadRef == [k |-> "bad", d |-> 0, n |-> 0]

LocationParse(base, ref) ==
    CASE ref.k = "abs"  -> Loc(ref.d, ref.n)
      [] ref.k = "rel"  -> Loc(base.d + ref.d, ref.n)
      [] ref.k = "none" -> base
      [] OTHER          -> NoLoc

LocationString(loc) == <<"file", loc.d, loc.n>>

rootLoc == Loc(0, 0)

(***************************************************************************)
(* Documents.  A file is what fetchFile and xml.Unmarshal make of a        *)
(* location: st says whether the fetch fails ("nofetch"), the bytes do not *)
(* decode ("baddata") or a schema comes out ("ok").                        *)
(***************************************************************************)
File(st, tns, imps, incls) ==
    [st |-> st, tns |-> tns, imports |-> imps, includes |-> incls,
     xmlns |-> [p \in {} |-> ""], refs |-> <<>>, types |-> {}]

\* a schema with its xmlns declarations and the type references of its
\* declarations (the base of a restriction or of an extension: the template
\* hands both to toGoType with nillable false and no minOccurs), without
\* externals; types are the names of the types the schema declares
Doc(tns, xmlns, refs) ==
    [st |-> "ok", tns |-> tns, imports |-> <<>>, includes |-> <<>>,
     xmlns |-> xmlns, refs |-> refs, types |-> {}]

Missing == File("nofetch", "", <<>>, <<>>)

Leaf(tns) == File("ok", tns, <<>>, <<>>)

TableLocs == {Loc(0, 1), Loc(0, 2), Loc(1, 1), Loc(1, 2)}

\* The WSDL read as an XSD document: XSDSchema.UnmarshalXML skips every child
\* outside the schema namespace, so only the targetNamespace attribute is kept.
WsdlAsXSD(w) == File(w.st, w.tns, <<>>, <<>>)

FileAt(wd, w, loc) ==
    IF loc = rootLoc THEN WsdlAsXSD(w)
    ELSE CASE wd.kind = "table" ->
                IF loc \in TableLocs THEN wd.tab[loc] ELSE Missing
           [] wd.kind = "chain" ->
                File("ok", "urn:a", <<>>, <<Rel(0, loc.n + 1)>>)
           [] wd.kind = "tree" ->
                File("ok", "urn:a", <<Rel(0, 2 * loc.n)>>, <<Rel(0, 2 * loc.n + 1)>>)
           [] OTHER ->
                IF loc.n <= StarWidth
                THEN File("ok", "urn:a", <<>>, <<Rel(0, StarWidth + loc.n)>>)
                ELSE Leaf("urn:a")

(***************************************************************************)
(* Schemas as decoded.  origin is a history field: the location the        *)
(* document was decoded from.                                              *)
(***************************************************************************)
Schema(origin, f) ==
    [origin |-> origin, tns |-> f.tns, imports |-> f.imports, includes |-> f.includes,
     xmlns |-> f.xmlns, refs |-> f.refs, types |-> f.types]

\* len(nsToPkg) > 0
MultiPackage(m) == DOMAIN m # {}

getNSPackage(m, ns) == IF ns \in DOMAIN m THEN m[ns] ELSE <<>>

\* unmarshal:725 and resolveXSDExternals:779
NoPackageMapping(m, ns) == MultiPackage(m) /\ getNSPackage(m, ns) = <<>>

HasExternals(s) == Len(s.includes) > 0 \/ Len(s.imports) > 0

\* mutant: the ceiling is not tested
ShouldRecurseNoCeiling(s, lvl) == HasExternals(s)

\* mutant: the ceiling is tested one too late
ShouldRecurseInclusive(s, lvl) == HasExternals(s) /\ maxRecursion >= lvl

\* resolveXSDExternals:767-768
ShouldRecurse(s, lvl) == HasExternals(s) /\ maxRecursion > lvl

\* resolveXSDExternals:746
AlreadyResolved(vis, key) == key \in vis

\* the two loops of resolveXSDExternals, imports first
RefsOf(s) ==
    [i \in 1..Len(s.imports) |-> [imp |-> TRUE, ref |-> s.imports[i]]]
    \o [i \in 1..Len(s.includes) |-> [imp |-> FALSE, ref |-> s.includes[i]]]

\* mutant: an import without schemaLocation is downloaded like any other
SkipImportNever(r) == FALSE

\* resolveXSDExternals:790
SkipImport(r) == r.imp /\ r.ref.k = "none"

\* mutant: the error of fetchFile is dropped
FetchFailsIgnored(f) == FALSE

\* fetchFile returned an error (unmarshal:711, resolveXSDExternals:755)
FetchFails(f) == f.st = "nofetch"

\* xml.Unmarshal returned an error (unmarshal:717, resolveXSDExternals:763)
DecodeFails(f) == f.st = "baddata"

Frame(loc, s) ==
    [loc |-> loc, refs |-> RefsOf(s), i |-> 1, result |-> <<>>, pend |-> <<>>]

Top == stack[Len(stack)]

SetTop(f) == [stack EXCEPT ![Len(stack)] = f]

\* mutant: the nested call resolves against the caller's base
NestedBaseOfCaller(base, location) == base

\* resolveXSDExternals:771, the location handed to the nested call
NestedBase(base, location) == location

\* mutant: a document whose namespace is already among the results is dropped
DownloadResultByNamespace(downloadResult, newschema) ==
    IF \E i \in 1..Len(downloadResult) : downloadResult[i].tns = newschema.tns
    THEN downloadResult
    ELSE Append(downloadResult, newschema)

\* resolveXSDExternals:783, append(downloadResult, newschema)
DownloadResult(downloadResult, newschema) == Append(downloadResult, newschema)

(***************************************************************************)
(* unmarshal (709-737) and resolveXSDExternals (739-815).                  *)
(***************************************************************************)
\* An error return unwinds every pending call: unmarshal returns it to Start.
Fail(e) ==
    /\ pc' = "startFailed"
    /\ err' = e
    /\ stack' = <<>>
    /\ UNCHANGED <<schemas, newSchemas, rootIdx>>

\* unmarshal:710-720: fetch and decode the WSDL.
FetchRoot ==
    /\ pc = "start"
    /\ fetchLog' = Append(fetchLog, rootLoc)
    /\ IF FetchFails(wsdlFile)
       THEN /\ Fail("fetch")
            /\ UNCHANGED decodeLog
       ELSE /\ decodeLog' = Append(decodeLog, rootLoc)
            /\ IF DecodeFails(wsdlFile)
               THEN Fail("decode")
               ELSE /\ pc' = "resolve"
                    /\ schemas' = [i \in 1..Len(wsdlFile.schemas) |->
                                      Schema(rootLoc, wsdlFile.schemas[i])]
                    /\ UNCHANGED <<err, stack, newSchemas, rootIdx>>
    /\ UNCHANGED <<nameVars, decodeVars, world, wsdlFile, nsToPkg, visited, level>>
    /\ UNCHANGED <<genVars, typeVars>>

\* unmarshal:723-728: the next root schema; its namespace is checked, then
\* resolveXSDExternals(schema, g.loc) is entered.
NextRoot ==
    /\ pc = "resolve"
    /\ stack = <<>>
    /\ rootIdx <= Len(wsdlFile.schemas)
    /\ IF NoPackageMapping(nsToPkg, schemas[rootIdx].tns)
       THEN Fail("nomapping")
       ELSE /\ stack' = <<Frame(rootLoc, schemas[rootIdx])>>
            /\ UNCHANGED <<pc, err, schemas, newSchemas, rootIdx>>
    /\ UNCHANGED <<nameVars, decodeVars, world, wsdlFile, nsToPkg, visited, level, fetchLog, decodeLog>>
    /\ UNCHANGED <<genVars, typeVars>>

\* resolveXSDExternals:788-793: an import without schemaLocation is skipped.
SkipStep ==
    /\ pc = "resolve"
    /\ stack # <<>>
    /\ Top.i <= Len(Top.refs)
    /\ SkipImport(Top.refs[Top.i])
    /\ stack' = SetTop([Top EXCEPT !.i = @ + 1])
    /\ UNCHANGED <<nameVars, decodeVars, world, wsdlFile, nsToPkg, pc, err, schemas, newSchemas,
                   rootIdx, visited, level, fetchLog, decodeLog>>
    /\ UNCHANGED <<genVars, typeVars>>

\* One call of download (740-784) up to its return or up to the nested call of
\* resolveXSDExternals.
DownloadStep ==
    /\ pc = "resolve"
    /\ stack # <<>>
    /\ Top.i <= Len(Top.refs)
    /\ ~SkipImport(Top.refs[Top.i])
    /\ LET location == LocationParse(Top.loc, Top.refs[Top.i].ref)
           schemaKey == LocationString(location)
           f         == FileAt(world, wsdlFile, location)
           newschema == Schema(location, f)
       IN  IF location = NoLoc
           THEN /\ Fail("parse")
                /\ UNCHANGED <<visited, level, fetchLog, decodeLog>>
           ELSE IF AlreadyResolved(visited, schemaKey)
           THEN /\ stack' = SetTop([Top EXCEPT !.i = @ + 1])
                /\ UNCHANGED <<pc, err, schemas, newSchemas, rootIdx,
                               visited, level, fetchLog, decodeLog>>
           ELSE /\ visited' = visited \cup {schemaKey}
                /\ fetchLog' = Append(fetchLog, location)
                /\ IF FetchFails(f)
                   THEN /\ Fail("fetch")
                        /\ UNCHANGED <<level, decodeLog>>
                   ELSE /\ decodeLog' = Append(decodeLog, location)
                        /\ IF DecodeFails(f)
                           THEN /\ Fail("decode")
                                /\ UNCHANGED level
                           ELSE IF ShouldRecurse(newschema, level)
                           THEN /\ Len(stack) < MaxStack
                                /\ level' = level + 1
                                /\ stack' = Append(SetTop([Top EXCEPT !.pend = <<newschema>>]),
                                                   Frame(NestedBase(Top.loc, location), newschema))
                                /\ UNCHANGED <<pc, err, schemas, newSchemas, rootIdx>>
                           ELSE IF NoPackageMapping(nsToPkg, newschema.tns)
                           THEN /\ Fail("nomapping")
                                /\ UNCHANGED level
                           ELSE /\ stack' = SetTop([Top EXCEPT
                                        !.i = @ + 1,
                                        !.result = @ \o DownloadResult(<<>>, newschema)])
                                /\ UNCHANGED <<pc, err, schemas, newSchemas, rootIdx, level>>
    /\ UNCHANGED <<nameVars, decodeVars, world, wsdlFile, nsToPkg>>
    /\ UNCHANGED <<genVars, typeVars>>

\* resolveXSDExternals:814 returns into download (772-783), which checks the
\* namespace of the document it was resolving and returns to the caller's loop.
ReturnNested ==
    /\ pc = "resolve"
    /\ Len(stack) > 1
    /\ Top.i > Len(Top.refs)
    /\ LET caller    == stack[Len(stack) - 1]
           newschema == caller.pend[1]
           popped    == SubSeq(stack, 1, Len(stack) - 1)
       IN  IF NoPackageMapping(nsToPkg, newschema.tns)
           THEN Fail("nomapping")
           ELSE /\ stack' = [popped EXCEPT ![Len(popped)] =
                                [caller EXCEPT
                                    !.i = @ + 1,
                                    !.pend = <<>>,
                                    !.result = @ \o DownloadResult(Top.result, newschema)]]
                /\ UNCHANGED <<pc, err, schemas, newSchemas, rootIdx>>
    /\ UNCHANGED <<nameVars, decodeVars, world, wsdlFile, nsToPkg, visited, level, fetchLog, decodeLog>>
    /\ UNCHANGED <<genVars, typeVars>>

\* resolveXSDExternals:814 returns into unmarshal (728-732).
ReturnRoot ==
    /\ pc = "resolve"
    /\ Len(stack) = 1
    /\ Top.i > Len(Top.refs)
    /\ newSchemas' = newSchemas \o Top.result
    /\ rootIdx' = rootIdx + 1
    /\ stack' = <<>>
    /\ UNCHANGED <<nameVars, decodeVars, world, wsdlFile, nsToPkg, pc, err, schemas, visited, level,
                   fetchLog, decodeLog>>
    /\ UNCHANGED <<genVars, typeVars>>

\* unmarshal:734-736
FinishUnmarshal ==
    /\ pc = "resolve"
    /\ stack = <<>>
    /\ rootIdx > Len(wsdlFile.schemas)
    /\ schemas' = schemas \o newSchemas
    /\ pc' = "traverse"
    /\ UNCHANGED <<nameVars, decodeVars, world, wsdlFile, nsToPkg, err, newSchemas, rootIdx, stack,
                   visited, level, fetchLog, decodeLog>>
    /\ UNCHANGED <<genVars, typeVars>>

(***************************************************************************)
(* Start (609-696) after unmarshal, and main (85-202).                     *)
(***************************************************************************)
Tasks == {"types", "operations", "server"}

\* the keys a loop "for ns, pkg := range g.nsToPkg" visits, or "" alone
Namespaces(m) == IF MultiPackage(m) THEN DOMAIN m ELSE {""}

\* the key of result.Types and result.Header for a namespace
PkgKey(m, ns) == IF MultiPackage(m) THEN m[ns] ELSE <<>>

\* Start:613-615 hands the error to main, which ends the program (122-124).
MainFatal ==
    /\ pc = "startFailed"
    /\ pc' = "fatal"
    /\ UNCHANGED <<nameVars, decodeVars, resolverVars, genVars, typeVars>>

\* os.Mkdir as main uses it (127-130, 132-135): main goes on only when Mkdir
\* answers fs.ErrExist; any other answer, nil included, ends the program.
MkdirGoesOn(outcome) == outcome = "exists"

\* filepath.Join(*dir, *pkg) and the names main derives from it
PkgPath == <<"pkg", <<>>>>

SubPkgPath(subPkg) == <<"sub", subPkg>>

MainFile == <<"main", <<>>>>

ServerFile == <<"server", <<>>>>

MkdirOutcomes(d) == IF d \in dirs THEN {"exists"} ELSE {"created", "exists", "error"}

MkdirEffect(d, outcome) == IF outcome = "error" THEN dirs ELSE dirs \cup {d}

\* main:126-130
MkdirPkg ==
    /\ pc = "mkdir"
    /\ \E o \in MkdirOutcomes(PkgPath) :
          /\ dirs' = MkdirEffect(PkgPath, o)
          /\ pc' = IF MkdirGoesOn(o) THEN "mkdirSub" ELSE "fatal"
    /\ todo' = DOMAIN nsToPkg
    /\ UNCHANGED <<nameVars, decodeVars, resolverVars, typeVars, tmplVars, task, result, files>>

\* main:131-136, one round of the loop over GetPackages
MkdirSub ==
    /\ pc = "mkdirSub"
    /\ \E ns \in todo : \E o \in MkdirOutcomes(SubPkgPath(nsToPkg[ns])) :
          /\ todo' = todo \ {ns}
          /\ dirs' = MkdirEffect(SubPkgPath(nsToPkg[ns]), o)
          /\ pc' = IF MkdirGoesOn(o) THEN pc ELSE "fatal"
    /\ UNCHANGED <<nameVars, decodeVars, resolverVars, typeVars, tmplVars, task, result, files>>

\* main:138-156: the main output file; os.Create or format.Source may fail.
WriteMain ==
    /\ pc = "mkdirSub"
    /\ todo = {}
    /\ \E created \in BOOLEAN, formatted \in BOOLEAN :
          /\ files' = IF created THEN files \cup {MainFile} ELSE files
          /\ pc' = IF created /\ formatted THEN "writeSub" ELSE "fatal"
    /\ todo' = DOMAIN nsToPkg
    /\ UNCHANGED <<nameVars, decodeVars, resolverVars, typeVars, tmplVars, task, result, dirs>>

\* main:159-180, one round of the loop over GetPackages
WriteSub ==
    /\ pc = "writeSub"
    /\ \E ns \in todo : \E created \in BOOLEAN, formatted \in BOOLEAN :
          /\ todo' = todo \ {ns}
          /\ files' = IF created THEN files \cup {SubPkgPath(nsToPkg[ns])} ELSE files
          /\ pc' = IF created /\ formatted THEN pc ELSE "fatal"
    /\ UNCHANGED <<nameVars, decodeVars, resolverVars, typeVars, tmplVars, task, result, dirs>>

\* main:183-201: the server file.
WriteServer ==
    /\ pc = "writeSub"
    /\ todo = {}
    /\ \E created \in BOOLEAN, formatted \in BOOLEAN :
          /\ files' = IF created THEN files \cup {ServerFile} ELSE files
          /\ pc' = IF created /\ formatted THEN "done" ELSE "fatal"
    /\ UNCHANGED <<nameVars, decodeVars, resolverVars, typeVars, tmplVars, task, todo, result, dirs>>

(***************************************************************************)
(* Strings are sequences of characters.                                    *)
(***************************************************************************)
LowerLetters ==
    <<"a", "b", "c", "d", "e", "f", "g", "h", "i", "j", "k", "l", "m",
      "n", "o", "p", "q", "r", "s", "t", "u", "v", "w", "x", "y", "z">>

UpperLetters ==
    <<"A", "B", "C", "D", "E", "F", "G", "H", "I", "J", "K", "L", "M",
      "N", "O", "P", "Q", "R", "S", "T", "U", "V", "W", "X", "Y", "Z">>

DigitChars == {"0", "1", "2", "3", "4", "5", "6", "7", "8", "9"}

Range(seq) == {seq[i] : i \in 1..Len(seq)}

IndexOf(seq, c) == CHOOSE i \in 1..Len(seq) : seq[i] = c

LowerSet == Range(LowerLetters)

UpperSet == Range(UpperLetters)

\* unicode.IsLetter, unicode.IsDigit
IsLetter(c) == c \in LowerSet \/ c \in UpperSet

IsDigit(c) == c \in DigitChars

\* unicode.ToUpper, unicode.ToLower
ToUpperChar(c) == IF c \in LowerSet THEN UpperLetters[IndexOf(LowerLetters, c)] ELSE c

ToLowerChar(c) == IF c \in UpperSet THEN LowerLetters[IndexOf(UpperLetters, c)] ELSE c

\* strings.ToLower
ToLower(str) == [i \in 1..Len(str) |-> ToLowerChar(str[i])]

\* strings.Split(str, sep) for a separator of one character
RECURSIVE Split(_, _)
Split(str, sep) ==
    IF \E k \in 1..Len(str) : str[k] = sep
    THEN LET i == CHOOSE k \in 1..Len(str) :
                     str[k] = sep /\ \A j \in 1..(k - 1) : str[j] # sep
         IN  <<SubSeq(str, 1, i - 1)>> \o Split(SubSeq(str, i + 1, Len(str)), sep)
    ELSE <<str>>

\* a Go map from strings to strings, read with m[key]: "" for a missing key
Lookup(table, key) ==
    IF \E i \in 1..Len(table) : table[i][1] = key
    THEN table[CHOOSE i \in 1..Len(table) : table[i][1] = key][2]
    ELSE <<>>

HasKey(table, key) == \E i \in 1..Len(table) : table[i][1] = key

\* reservedWords (952-978)
reservedWords ==
    <<<<<<"b", "r", "e", "a", "k">>, <<"b", "r", "e", "a", "k", "_">>>>,
      <<<<"d", "e", "f", "a", "u", "l", "t">>, <<"d", "e", "f", "a", "u", "l", "t", "_">>>>,
      <<<<"f", "u", "n", "c">>, <<"f", "u", "n", "c", "_">>>>,
      <<<<"i", "n", "t", "e", "r", "f", "a", "c", "e">>, <<"i", "n", "t", "e", "r", "f", "a", "c", "e", "_">>>>,
      <<<<"s", "e", "l", "e", "c", "t">>, <<"s", "e", "l", "e", "c", "t", "_">>>>,
      <<<<"c", "a", "s", "e">>, <<"c", "a", "s", "e", "_">>>>,
      <<<<"d", "e", "f", "e", "r">>, <<"d", "e", "f", "e", "r", "_">>>>,
      <<<<"g", "o">>, <<"g", "o", "_">>>>,
      <<<<"m", "a", "p">>, <<"m", "a", "p", "_">>>>,
      <<<<"s", "t", "r", "u", "c", "t">>, <<"s", "t", "r", "u", "c", "t", "_">>>>,
      <<<<"c", "h", "a", "n">>, <<"c", "h", "a", "n", "_">>>>,
      <<<<"e", "l", "s", "e">>, <<"e", "l", "s", "e", "_">>>>,
      <<<<"g", "o", "t", "o">>, <<"g", "o", "t", "o", "_">>>>,
      <<<<"p", "a", "c", "k", "a", "g", "e">>, <<"p", "a", "c", "k", "a", "g", "e", "_">>>>,
      <<<<"s", "w", "i", "t", "c", "h">>, <<"s", "w", "i", "t", "c", "h", "_">>>>,
      <<<<"c", "o", "n", "s", "t">>, <<"c", "o", "n", "s", "t", "_">>>>,
      <<<<"f", "a", "l", "l", "t", "h", "r", "o", "u", "g", "h">>, <<"f", "a", "l", "l", "t", "h", "r", "o", "u", "g", "h", "_">>>>,
      <<<<"i", "f">>, <<"i", "f", "_">>>>,
      <<<<"r", "a", "n", "g", "e">>, <<"r", "a", "n", "g", "e", "_">>>>,
      <<<<"t", "y", "p", "e">>, <<"t", "y", "p", "e", "_">>>>,
      <<<<"c", "o", "n", "t", "i", "n", "u", "e">>, <<"c", "o", "n", "t", "i", "n", "u", "e", "_">>>>,
      <<<<"f", "o", "r">>, <<"f", "o", "r", "_">>>>,
      <<<<"i", "m", "p", "o", "r", "t">>, <<"i", "m", "p", "o", "r", "t", "_">>>>,
      <<<<"r", "e", "t", "u", "r", "n">>, <<"r", "e", "t", "u", "r", "n", "_">>>>,
      <<<<"v", "a", "r">>, <<"v", "a", "r", "_">>>>>>

\* reservedWordsInAttr (980-1007)
reservedWordsInAttr ==
    <<<<<<"b", "r", "e", "a", "k">>, <<"b", "r", "e", "a", "k", "_">>>>,
      <<<<"d", "e", "f", "a", "u", "l", "t">>, <<"d", "e", "f", "a", "u", "l", "t", "_">>>>,
      <<<<"f", "u", "n", "c">>, <<"f", "u", "n", "c", "_">>>>,
      <<<<"i", "n", "t", "e", "r", "f", "a", "c", "e">>, <<"i", "n", "t", "e", "r", "f", "a", "c", "e", "_">>>>,
      <<<<"s", "e", "l", "e", "c", "t">>, <<"s", "e", "l", "e", "c", "t", "_">>>>,
      <<<<"c", "a", "s", "e">>, <<"c", "a", "s", "e", "_">>>>,
      <<<<"d", "e", "f", "e", "r">>, <<"d", "e", "f", "e", "r", "_">>>>,
      <<<<"g", "o">>, <<"g", "o", "_">>>>,
      <<<<"m", "a", "p">>, <<"m", "a", "p", "_">>>>,
      <<<<"s", "t", "r", "u", "c", "t">>, <<"s", "t", "r", "u", "c", "t", "_">>>>,
      <<<<"c", "h", "a", "n">>, <<"c", "h", "a", "n", "_">>>>,
      <<<<"e", "l", "s", "e">>, <<"e", "l", "s", "e", "_">>>>,
      <<<<"g", "o", "t", "o">>, <<"g", "o", "t", "o", "_">>>>,
      <<<<"p", "a", "c", "k", "a", "g", "e">>, <<"p", "a", "c", "k", "a", "g", "e", "_">>>>,
      <<<<"s", "w", "i", "t", "c", "h">>, <<"s", "w", "i", "t", "c", "h", "_">>>>,
      <<<<"c", "o", "n", "s", "t">>, <<"c", "o", "n", "s", "t", "_">>>>,
      <<<<"f", "a", "l", "l", "t", "h", "r", "o", "u", "g", "h">>, <<"f", "a", "l", "l", "t", "h", "r", "o", "u", "g", "h", "_">>>>,
      <<<<"i", "f">>, <<"i", "f", "_">>>>,
      <<<<"r", "a", "n", "g", "e">>, <<"r", "a", "n", "g", "e", "_">>>>,
      <<<<"t", "y", "p", "e">>, <<"t", "y", "p", "e", "_">>>>,
      <<<<"c", "o", "n", "t", "i", "n", "u", "e">>, <<"c", "o", "n", "t", "i", "n", "u", "e", "_">>>>,
      <<<<"f", "o", "r">>, <<"f", "o", "r", "_">>>>,
      <<<<"i", "m", "p", "o", "r", "t">>, <<"i", "m", "p", "o", "r", "t", "_">>>>,
      <<<<"r", "e", "t", "u", "r", "n">>, <<"r", "e", "t", "u", "r", "n", "_">>>>,
      <<<<"v", "a", "r">>, <<"v", "a", "r", "_">>>>,
      <<<<"s", "t", "r", "i", "n", "g">>, <<"a", "s", "t", "r", "i", "n", "g">>>>>>

\* specialCharacterMapping (1009-1012)
specialCharacterMapping ==
    <<<<<<"+">>, <<"P", "l", "u", "s">>>>,
      <<<<"@">>, <<"A", "t">>>>>>

\* xsd2GoTypes (1055-1080)
xsd2GoTypes ==
    <<<<<<"s", "t", "r", "i", "n", "g">>, <<"s", "t", "r", "i", "n", "g">>>>,
      <<<<"t", "o", "k", "e", "n">>, <<"s", "t", "r", "i", "n", "g">>>>,
      <<<<"f", "l", "o", "a", "t">>, <<"f", "l", "o", "a", "t", "3", "2">>>>,
      <<<<"d", "o", "u", "b", "l", "e">>, <<"f", "l", "o", "a", "t", "6", "4">>>>,
      <<<<"d", "e", "c", "i", "m", "a", "l">>, <<"f", "l", "o", "a", "t", "6", "4">>>>,
      <<<<"i", "n", "t", "e", "g", "e", "r">>, <<"i", "n", "t", "3", "2">>>>,
      <<<<"i", "n", "t">>, <<"i", "n", "t", "3", "2">>>>,
      <<<<"s", "h", "o", "r", "t">>, <<"i", "n", "t", "1", "6">>>>,
      <<<<"b", "y", "t", "e">>, <<"i", "n", "t", "8">>>>,
      <<<<"l", "o", "n", "g">>, <<"i", "n", "t", "6", "4">>>>,
      <<<<"b", "o", "o", "l", "e", "a", "n">>, <<"b", "o", "o", "l">>>>,
      <<<<"d", "a", "t", "e", "t", "i", "m", "e">>, <<"s", "o", "a", "p", ".", "X", "S", "D", "D", "a", "t", "e", "T", "i", "m", "e">>>>,
      <<<<"d", "a", "t", "e">>, <<"s", "o", "a", "p", ".", "X", "S", "D", "D", "a", "t", "e">>>>,
      <<<<"t", "i", "m", "e">>, <<"s", "o", "a", "p", ".", "X", "S", "D", "T", "i", "m", "e">>>>,
      <<<<"b", "a", "s", "e", "6", "4", "b", "i", "n", "a", "r", "y">>, <<"[", "]", "b", "y", "t", "e">>>>,
      <<<<"h", "e", "x", "b", "i", "n", "a", "r", "y">>, <<"[", "]", "b", "y", "t", "e">>>>,
      <<<<"u", "n", "s", "i", "g", "n", "e", "d", "i", "n", "t">>, <<"u", "i", "n", "t", "3", "2">>>>,
      <<<<"n", "o", "n", "n", "e", "g", "a", "t", "i", "v", "e", "i", "n", "t", "e", "g", "e", "r">>, <<"u", "i", "n", "t", "3", "2">>>>,
      <<<<"u", "n", "s", "i", "g", "n", "e", "d", "s", "h", "o", "r", "t">>, <<"u", "i", "n", "t", "1", "6">>>>,
      <<<<"u", "n", "s", "i", "g", "n", "e", "d", "b", "y", "t", "e">>, <<"b", "y", "t", "e">>>>,
      <<<<"u", "n", "s", "i", "g", "n", "e", "d", "l", "o", "n", "g">>, <<"u", "i", "n", "t", "6", "4">>>>,
      <<<<"a", "n", "y", "t", "y", "p", "e">>, <<"A", "n", "y", "T", "y", "p", "e">>>>,
      <<<<"n", "c", "n", "a", "m", "e">>, <<"N", "C", "N", "a", "m", "e">>>>,
      <<<<"a", "n", "y", "u", "r", "i">>, <<"A", "n", "y", "U", "R", "I">>>>>>

\* basicTypes (1265-1282)
basicTypes ==
    <<<<<<"s", "t", "r", "i", "n", "g">>, <<"s", "t", "r", "i", "n", "g">>>>,
      <<<<"f", "l", "o", "a", "t", "3", "2">>, <<"f", "l", "o", "a", "t", "3", "2">>>>,
      <<<<"f", "l", "o", "a", "t", "6", "4">>, <<"f", "l", "o", "a", "t", "6", "4">>>>,
      <<<<"i", "n", "t">>, <<"i", "n", "t">>>>,
      <<<<"i", "n", "t", "8">>, <<"i", "n", "t", "8">>>>,
      <<<<"i", "n", "t", "1", "6">>, <<"i", "n", "t", "1", "6">>>>,
      <<<<"i", "n", "t", "3", "2">>, <<"i", "n", "t", "3", "2">>>>,
      <<<<"i", "n", "t", "6", "4">>, <<"i", "n", "t", "6", "4">>>>,
      <<<<"b", "o", "o", "l">>, <<"b", "o", "o", "l">>>>,
      <<<<"t", "i", "m", "e", ".", "T", "i", "m", "e">>, <<"t", "i", "m", "e", ".", "T", "i", "m", "e">>>>,
      <<<<"[", "]", "b", "y", "t", "e">>, <<"[", "]", "b", "y", "t", "e">>>>,
      <<<<"b", "y", "t", "e">>, <<"b", "y", "t", "e">>>>,
      <<<<"u", "i", "n", "t", "1", "6">>, <<"u", "i", "n", "t", "1", "6">>>>,
      <<<<"u", "i", "n", "t", "3", "2">>, <<"u", "i", "n", "t", "3", "2">>>>,
      <<<<"u", "i", "n", "i", "t", "6", "4">>, <<"u", "i", "n", "t", "6", "4">>>>,
      <<<<"i", "n", "t", "e", "r", "f", "a", "c", "e", "{", "}">>, <<"i", "n", "t", "e", "r", "f", "a", "c", "e", "{", "}">>>>>>

(***************************************************************************)
(* The identifier sanitizer (1015-1049, 1240-1254) and the type mapper     *)
(* toGoType (1102-1138).                                                   *)
(***************************************************************************)
RECURSIVE ReplaceChar(_, _, _)
\* strings.ReplaceAll(value, k, v) for a k of one character
ReplaceChar(value, k, v) ==
    IF value = <<>> THEN <<>>
    ELSE (IF Head(value) = k THEN v ELSE <<Head(value)>>) \o ReplaceChar(Tail(value), k, v)

RECURSIVE ReplaceSpecial(_, _)
\* normalize:1034-1036
ReplaceSpecial(value, n) ==
    IF n = 0 THEN value
    ELSE ReplaceChar(ReplaceSpecial(value, n - 1),
                     specialCharacterMapping[n][1][1], specialCharacterMapping[n][2])

RECURSIVE MapRunes(_)
\* normalize:1038-1048, strings.Map with the mapping of normalize
MapRunes(value) ==
    IF value = <<>> THEN <<>>
    ELSE LET r == Head(value)
         IN  (IF r = "." \/ r = "-" THEN <<"_">>
              ELSE IF IsLetter(r) \/ IsDigit(r) \/ r = "_" THEN <<r>>
              ELSE <<>>) \o MapRunes(Tail(value))

normalize(value) == MapRunes(ReplaceSpecial(value, Len(specialCharacterMapping)))

replaceReservedWords(identifier) ==
    IF Lookup(reservedWords, identifier) # <<>>
    THEN Lookup(reservedWords, identifier)
    ELSE normalize(identifier)

isBasicType(identifier) == HasKey(basicTypes, identifier)

makePublic(identifier) ==
    IF isBasicType(identifier) THEN identifier
    ELSE IF identifier = <<>> THEN <<"E", "m", "p", "t", "y", "S", "t", "r", "i", "n", "g">>
    ELSE <<ToUpperChar(Head(identifier))>> \o Tail(identifier)

\* getNSFromMap (500-505)
getNSFromMap(nsMap, prefix) == IF prefix \in DOMAIN nsMap THEN nsMap[prefix] ELSE ""

\* toGoType:1104-1110
LocalName(xsdType) ==
    LET r == Split(xsdType, ":") IN IF Len(r) = 2 THEN r[2] ELSE r[1]

\* mutant: the built-in table is read without lowering the case
BuiltInCaseSensitive(xsdType) == Lookup(xsd2GoTypes, LocalName(xsdType))

\* toGoType:1112
BuiltIn(xsdType) == Lookup(xsd2GoTypes, ToLower(LocalName(xsdType)))

\* mutant: the namespace of the reference is not compared with the current one
ForeignPkgOfAnyNamespace(xsdType, curNS, nsMap, m) ==
    LET r == Split(xsdType, ":")
    IN  IF Len(r) = 2 THEN getNSPackage(m, getNSFromMap(nsMap, r[1])) ELSE <<>>

\* toGoType:1116-1118, the package that qualifies the reference, "" for none
ForeignPkg(xsdType, curNS, nsMap, m) ==
    LET r == Split(xsdType, ":")
    IN  IF Len(r) = 2 /\ getNSFromMap(nsMap, r[1]) # curNS
        THEN getNSPackage(m, getNSFromMap(nsMap, r[1]))
        ELSE <<>>

\* mutant: minOccurs is compared as a number
IsOptionalNumeric(nillable, minOccurs) ==
    nillable \/ (minOccurs # <<>> /\ \A i \in 1..Len(minOccurs) : minOccurs[i] = "0")

\* toGoType:1133
IsOptional(nillable, minOccurs) == nillable \/ minOccurs = <<"0">>

\* toGoType (1102-1138), the value it returns
toGoType(xsdType, nillable, minOccurs, curNS, nsMap, m) ==
    LET pkg   == ForeignPkg(xsdType, curNS, nsMap, m)
        named == replaceReservedWords(makePublic(LocalName(xsdType)))
        value == IF BuiltIn(xsdType) # <<>> THEN BuiltIn(xsdType)
                 ELSE IF pkg # <<>> THEN pkg \o <<".">> \o named
                 ELSE named
    IN  IF IsOptional(nillable, minOccurs) THEN <<"*">> \o value ELSE value

\* toGoType:1120-1126
recordImport(imp, curNS, pkg) ==
    IF curNS \in DOMAIN imp
    THEN IF pkg \in Range(imp[curNS]) THEN imp
         ELSE [imp EXCEPT ![curNS] = Append(@, pkg)]
    ELSE [ns \in DOMAIN imp \cup {curNS} |-> IF ns = curNS THEN <<pkg>> ELSE imp[ns]]

\* toGoType (1102-1138), what it leaves in g.imports
toGoTypeImports(imp, xsdType, curNS, nsMap, m) ==
    IF BuiltIn(xsdType) = <<>> /\ ForeignPkg(xsdType, curNS, nsMap, m) # <<>>
    THEN recordImport(imp, curNS, ForeignPkg(xsdType, curNS, nsMap, m))
    ELSE imp

NoPrefixes == [p \in {} |-> ""]

NoImports == [ns \in {} |-> <<>>]

NoCall ==
    [xsdType |-> <<>>, nillable |-> FALSE, minOccurs |-> <<>>, value |-> <<>>,
     made |-> FALSE]

\* the list g.imports holds for a namespace, empty when it has none
ImportsOf(imp, ns) == IF ns \in DOMAIN imp THEN imp[ns] ELSE <<>>

(***************************************************************************)
(* Start (609-696) after unmarshal.  The three goroutines execute their    *)
(* templates call by call; the calls of setNS, setNSMap and toGoType read  *)
(* and write g.currentNamespace, g.currentNamespaceMap and g.imports,      *)
(* which the goroutines share without a lock.                              *)
(***************************************************************************)
SetNSCall(ns) == [op |-> "setNS", ns |-> ns]

SetNSMapCall(nsMap) == [op |-> "setNSMap", nsMap |-> nsMap]

ToGoTypeCall(xsdType) == [op |-> "toGoType", xsdType |-> xsdType]

\* WSDLType.FilterNamespace: the schemas genTypes(ns) hands to the template
FilterNamespace(ss, ns) == IF ns = "" THEN ss ELSE SelectSeq(ss, LAMBDA s : s.tns = ns)

\* types_tmpl.go:121-246 for one schema: setNS, setNSMap, then one toGoType per
\* type reference of its declarations
SchemaCalls(s) ==
    <<SetNSCall(s.tns), SetNSMapCall(s.xmlns)>>
    \o [i \in 1..Len(s.refs) |-> ToGoTypeCall(s.refs[i])]

RECURSIVE TypesCalls(_)
\* types_tmpl.go:121, range .Schemas
TypesCalls(ss) == IF ss = <<>> THEN <<>> ELSE SchemaCalls(Head(ss)) \o TypesCalls(Tail(ss))

\* the calls the operations template and the server template make: the type
\* mapper, once per message part the port types refer to
PortTypeCalls(w) == [i \in 1..Len(w.parts) |-> ToGoTypeCall(w.parts[i])]

IdleRun == [ns |-> "", calls |-> <<>>, pend |-> <<>>, buf |-> <<>>, active |-> FALSE]

EmptyGenerated ==
    [Types |-> [k \in {} |-> <<>>], Header |-> [k \in {} |-> <<>>],
     Operations |-> <<>>, Server |-> <<>>]

\* m[k] = v on a Go map
Put(m, k, v) == [x \in DOMAIN m \cup {k} |-> IF x = k THEN v ELSE m[x]]

\* toGoType:1120-1121, whether the call goes on to write g.imports
NeedsImport(imp, curNS, pkg) == curNS \notin DOMAIN imp \/ pkg \notin Range(imp[curNS])

\* toGoType:1122 (found) and 1125 (not found): the statement that writes g.imports
storeImport(imp, curNS, pkg, found) ==
    IF found THEN Put(imp, curNS, Append(ImportsOf(imp, curNS), pkg))
    ELSE Put(imp, curNS, <<pkg>>)

\* the process has not ended: its goroutines can still take steps
Alive == pc \notin {"fatal", "done"}

\* mutant: the headers do not wait for the operations and the server goroutine
AllDoneTypesOnly == task["types"] = "done"

\* Start:669, wg.Wait() returns when the three goroutines have called Done
AllDone == \A t \in Tasks : task[t] = "done"

\* Start:618-667: traverse the schemas, then start the three goroutines.
Launch ==
    /\ pc = "traverse"
    /\ pc' = "wait"
    /\ task' = [t \in Tasks |-> "running"]
    /\ todo' = Namespaces(nsToPkg)
    /\ run' = [t \in Tasks |->
                 IF t = "types" THEN IdleRun
                 ELSE [IdleRun EXCEPT !.calls = PortTypeCalls(wsdlFile), !.active = TRUE]]
    /\ UNCHANGED <<nameVars, decodeVars, resolverVars, typeVars, result, dirs, files, generated>>

\* Start:629-641: the types goroutine calls genTypes for the next namespace of
\* its loop over g.nsToPkg (817-843, up to tmpl.Execute).
GenTypes ==
    /\ Alive
    /\ task["types"] = "running"
    /\ ~run["types"].active
    /\ \E ns \in todo :
          /\ todo' = todo \ {ns}
          /\ run' = [run EXCEPT !["types"] =
                        [ns |-> ns, calls |-> TypesCalls(FilterNamespace(schemas, ns)),
                         pend |-> <<>>, buf |-> <<>>, active |-> TRUE]]
    /\ UNCHANGED <<nameVars, decodeVars, resolverVars, typeVars, pc, task, result, dirs, files, generated>>

\* One step of a template execution in goroutine t: a call of setNS (485-488),
\* of setNSMap (495-498), or of toGoType (1102-1138).  toGoType takes two steps
\* when it records an import: it reads the shared state and decides (1104-1121),
\* then writes g.imports (1122 or 1125) and returns.
TemplateCall(t) ==
    /\ Alive
    /\ task[t] = "running"
    /\ run[t].calls # <<>>
    /\ LET c    == Head(run[t].calls)
           rest == Tail(run[t].calls)
       IN  CASE c.op = "setNS" ->
                  /\ currentNamespace' = c.ns
                  /\ run' = [run EXCEPT ![t].calls = rest]
                  /\ UNCHANGED <<currentNamespaceMap, imports>>
             [] c.op = "setNSMap" ->
                  /\ currentNamespaceMap' = c.nsMap
                  /\ run' = [run EXCEPT ![t].calls = rest]
                  /\ UNCHANGED <<currentNamespace, imports>>
             [] OTHER ->
                  IF run[t].pend = <<>>
                  THEN LET value == toGoType(c.xsdType, FALSE, <<>>, currentNamespace,
                                             currentNamespaceMap, nsToPkg)
                           pkg   == ForeignPkg(c.xsdType, currentNamespace,
                                               currentNamespaceMap, nsToPkg)
                       IN  /\ IF BuiltIn(c.xsdType) = <<>> /\ pkg # <<>>
                                  /\ NeedsImport(imports, currentNamespace, pkg)
                              THEN run' = [run EXCEPT ![t].pend =
                                             <<[pkg   |-> pkg,
                                                found |-> currentNamespace \in DOMAIN imports,
                                                value |-> value]>>]
                              ELSE run' = [run EXCEPT ![t].calls = rest,
                                                      ![t].buf = Append(@, value)]
                           /\ UNCHANGED <<currentNamespace, currentNamespaceMap, imports>>
                  ELSE LET w == run[t].pend[1]
                       IN  /\ imports' = storeImport(imports, currentNamespace, w.pkg, w.found)
                           /\ run' = [run EXCEPT ![t].calls = rest, ![t].pend = <<>>,
                                                 ![t].buf = Append(@, w.value)]
                           /\ UNCHANGED <<currentNamespace, currentNamespaceMap>>
    /\ UNCHANGED <<nameVars, decodeVars, resolverVars, task, todo, result, dirs, files, generated, pc, call>>

\* Two goroutines inside toGoType at once, one of them about to write g.imports:
\* the Go runtime may detect the concurrent map access and end the program.
ConcurrentMapAccess ==
    /\ Alive
    /\ \E t1, t2 \in Tasks :
          /\ t1 # t2
          /\ task[t1] = "running" /\ run[t1].pend # <<>>
          /\ task[t2] = "running" /\ run[t2].calls # <<>>
          /\ Head(run[t2].calls).op = "toGoType"
    /\ pc' = "fatal"
    /\ UNCHANGED <<nameVars, decodeVars, resolverVars, genVars, typeVars>>

\* Start:630 and 636: genTypes has returned, its bytes are stored under the package.
GenTypesReturn ==
    /\ Alive
    /\ task["types"] = "running"
    /\ run["types"].active
    /\ run["types"].calls = <<>>
    /\ LET ns == run["types"].ns
       IN  /\ result' = [result EXCEPT !.Types = @ \cup {PkgKey(nsToPkg, ns)}]
           /\ generated' = [generated EXCEPT !.Types =
                               Put(@, PkgKey(nsToPkg, ns), [ns |-> ns, out |-> run["types"].buf])]
    /\ run' = [run EXCEPT !["types"] = IdleRun]
    /\ UNCHANGED <<nameVars, decodeVars, resolverVars, typeVars, pc, task, todo, dirs, files>>

\* Start:642-643
TypesDone ==
    /\ Alive
    /\ task["types"] = "running"
    /\ ~run["types"].active
    /\ todo = {}
    /\ task' = [task EXCEPT !["types"] = "done"]
    /\ UNCHANGED <<nameVars, decodeVars, resolverVars, typeVars, tmplVars, pc, todo, result, dirs, files>>

\* Start:645-655: genOperations has returned.
GenOperations ==
    /\ Alive
    /\ task["operations"] = "running"
    /\ run["operations"].calls = <<>>
    /\ task' = [task EXCEPT !["operations"] = "done"]
    /\ result' = [result EXCEPT !.Operations = TRUE]
    /\ generated' = [generated EXCEPT !.Operations = run["operations"].buf]
    /\ run' = [run EXCEPT !["operations"] = IdleRun]
    /\ UNCHANGED <<nameVars, decodeVars, resolverVars, typeVars, pc, todo, dirs, files>>

\* Start:657-667: genServer has returned.
GenServer ==
    /\ Alive
    /\ task["server"] = "running"
    /\ run["server"].calls = <<>>
    /\ task' = [task EXCEPT !["server"] = "done"]
    /\ result' = [result EXCEPT !.Server = TRUE]
    /\ generated' = [generated EXCEPT !.Server = run["server"].buf]
    /\ run' = [run EXCEPT !["server"] = IdleRun]
    /\ UNCHANGED <<nameVars, decodeVars, resolverVars, typeVars, pc, todo, dirs, files>>

\* Start:669, wg.Wait returns
WaitDone ==
    /\ pc = "wait"
    /\ AllDone
    /\ pc' = "headers"
    /\ todo' = Namespaces(nsToPkg)
    /\ UNCHANGED <<nameVars, decodeVars, resolverVars, typeVars, tmplVars, task, result, dirs, files>>

\* Start:671-683: one call of genHeader (895-930), which hands g.imports[ns]
\* to the header template.
GenHeader ==
    /\ pc = "headers"
    /\ \E ns \in todo :
          /\ todo' = todo \ {ns}
          /\ result' = [result EXCEPT !.Header = @ \cup {PkgKey(nsToPkg, ns)}]
          /\ generated' = [generated EXCEPT !.Header =
                              Put(@, PkgKey(nsToPkg, ns),
                                  [ns |-> ns, Imports |-> ImportsOf(imports, ns)])]
    /\ UNCHANGED <<nameVars, decodeVars, resolverVars, typeVars, pc, task, dirs, files, run>>

\* Start:684-695
FinishStart ==
    /\ pc = "headers"
    /\ todo = {}
    /\ result' = [result EXCEPT !.ServerHeader = TRUE, !.ServerWSDL = TRUE,
                                !.returned = TRUE]
    /\ pc' = "mkdir"
    /\ UNCHANGED <<nameVars, decodeVars, resolverVars, typeVars, tmplVars, task, todo, dirs, files>>

(***************************************************************************)
(* The inputs: import/include graphs, fetch and decode failures, target    *)
(* namespaces and namespace-to-package mappings.                           *)
(***************************************************************************)
Refs(imps, incls) == [imports |-> imps, includes |-> incls]

NoRefs == Refs(<<>>, <<>>)

Tab(a01, a02, a11, a12) ==
    [l \in TableLocs |->
        CASE l = Loc(0, 1) -> a01
          [] l = Loc(0, 2) -> a02
          [] l = Loc(1, 1) -> a11
          [] OTHER         -> a12]

Graph(roots, tab) == [roots |-> roots, tab |-> tab]

\* a cycle of two external documents, reached through nested relative references
GraphCycle ==
    Graph(<<Refs(<<Rel(1, 1)>>, <<>>)>>,
          Tab(NoRefs, NoRefs, Refs(<<>>, <<Rel(0, 2)>>), Refs(<<>>, <<Rel(0, 1)>>)))

\* an external document that refers back to the location of the WSDL
GraphBackToRoot ==
    Graph(<<Refs(<<>>, <<Rel(0, 1)>>)>>,
          Tab(Refs(<<Rel(0, 0)>>, <<Rel(0, 2)>>), NoRefs, NoRefs, NoRefs))

\* imports without schemaLocation, followed by further references
GraphNoLocation ==
    Graph(<<Refs(<<EmptyRef, Rel(0, 1)>>, <<Rel(0, 2)>>)>>,
          Tab(Refs(<<EmptyRef>>, <<>>), Refs(<<EmptyRef, Abs(1, 1)>>, <<>>), NoRefs, NoRefs))

\* two root schemas that share an external document
GraphTwoRoots ==
    Graph(<<Refs(<<>>, <<Rel(0, 1)>>), Refs(<<Rel(0, 1)>>, <<Rel(0, 2)>>)>>,
          Tab(Refs(<<>>, <<Rel(1, 1)>>), Refs(<<Abs(1, 2)>>, <<>>), NoRefs, NoRefs))

\* a reference that Location.Parse rejects
GraphBadRef ==
    Graph(<<Refs(<<Abs(1, 2)>>, <<>>)>>,
          Tab(NoRefs, NoRefs, NoRefs, Refs(<<>>, <<BadRef>>)))

\* two documents that name the same third one
GraphDiamond ==
    Graph(<<Refs(<<>>, <<Rel(0, 1), Rel(0, 2)>>)>>,
          Tab(Refs(<<Abs(1, 1)>>, <<>>), Refs(<<Abs(1, 1)>>, <<Rel(1, 2)>>), NoRefs, NoRefs))

\* a path through all four documents, each named relative to the one before
GraphDeep ==
    Graph(<<Refs(<<Rel(0, 1)>>, <<>>)>>,
          Tab(Refs(<<>>, <<Rel(1, 1)>>), NoRefs, Refs(<<Rel(0, 2)>>, <<>>),
              Refs(<<>>, <<Abs(0, 2)>>)))

\* a WSDL without external references
GraphPlain == Graph(<<NoRefs>>, Tab(NoRefs, NoRefs, NoRefs, NoRefs))

Graphs == {GraphCycle, GraphBackToRoot, GraphNoLocation, GraphTwoRoots,
           GraphBadRef, GraphDiamond, GraphDeep, GraphPlain}

\* which document fails, and how: at most one per run
Failures ==
    {[at |-> NoLoc, st |-> "ok"]}
    \cup [at : TableLocs \cup {rootLoc}, st : {"nofetch", "baddata"}]

StatusAt(fail, l) == IF fail.at = l THEN fail.st ELSE "ok"

\* the target namespaces of the first root schema and of two of the documents
TnsChoices == [root : {"urn:a", "urn:x"}, t01 : {"urn:a", "urn:x"}, t11 : {"urn:a", "urn:x"}]

TnsAt(t, l) ==
    CASE l = Loc(0, 1) -> t.t01
      [] l = Loc(1, 1) -> t.t11
      [] l = Loc(0, 2) -> "urn:b"
      [] OTHER         -> "urn:a"

RootTns(t, i) == IF i = 1 THEN t.root ELSE "urn:b"

TableWorld(g, fail, t) ==
    [kind |-> "table",
     tab  |-> [l \in TableLocs |->
                  File(StatusAt(fail, l), TnsAt(t, l), g.tab[l].imports, g.tab[l].includes)]]

TableWsdl(g, fail, t) ==
    [st      |-> StatusAt(fail, rootLoc),
     tns     |-> "urn:a",
     parts   |-> <<>>,
     schemas |-> [i \in 1..Len(g.roots) |->
                     File("ok", RootTns(t, i), g.roots[i].imports, g.roots[i].includes)]]

\* worlds without end: every document names documents not seen before
Generators == {"chain", "tree", "star"}

GenWorld(kind) == [kind |-> kind, tab |-> [l \in TableLocs |-> Missing]]

GenWsdl(kind) ==
    [st      |-> "ok",
     tns     |-> "urn:a",
     parts   |-> <<>>,
     schemas |-> <<File("ok", "urn:a", <<>>,
                        IF kind = "star" THEN [i \in 1..StarWidth |-> Rel(0, i)]
                        ELSE <<Rel(0, 1)>>)>>]

DocPrefixes ==
    [p \in {<<"t", "n", "s">>, <<"e", "x", "t">>, <<"x", "s">>} |->
        CASE p = <<"t", "n", "s">> -> "urn:a"
          [] p = <<"e", "x", "t">> -> "urn:b"
          [] OTHER                 -> "http://www.w3.org/2001/XMLSchema"]

\* the xmlns declarations of a schema of urn:b that names urn:a as ext
PeerPrefixes ==
    [p \in {<<"t", "n", "s">>, <<"e", "x", "t">>, <<"x", "s">>} |->
        CASE p = <<"t", "n", "s">> -> "urn:b"
          [] p = <<"e", "x", "t">> -> "urn:a"
          [] OTHER                 -> "http://www.w3.org/2001/XMLSchema"]

\* a schema of urn:a with a type whose base is a type of urn:b
DocA == Doc("urn:a", DocPrefixes, <<<<"e", "x", "t", ":", "f", "o", "o">>>>)

\* a schema of urn:b with a type whose base is built in
DocB == Doc("urn:b", PeerPrefixes, <<<<"x", "s", ":", "s", "t", "r", "i", "n", "g">>>>)

\* the message parts the port types of the WSDL refer to: none, or one
PartChoices == {<<>>, <<<<"e", "x", "t", ":", "f", "o", "o">>>>}

\* the schema of urn:b, declaring the type foo that DocA refers to
DocBWithFoo == [DocB EXCEPT !.types = {<<"f", "o", "o">>}]

\* the schema of urn:b a WSDL has: without or with the type DocA refers to
Peers == {DocB, DocBWithFoo}

\* a WSDL with the two schemas inline and nothing to resolve
TypedWsdl(parts, peer) ==
    [st |-> "ok", tns |-> "urn:a", parts |-> parts, schemas |-> <<DocA, peer>>]

NoMapping == [ns \in {} |-> <<>>]

Mappings ==
    {NoMapping,
     [ns \in {"urn:a", "urn:b"} |-> IF ns = "urn:a" THEN <<"p", "a">> ELSE <<"p", "b">>],
     [ns \in {"urn:a", "urn:b"} |-> <<"p">>]}

EmptyResult ==
    [Types |-> {}, Header |-> {}, Operations |-> FALSE, Server |-> FALSE,
     ServerHeader |-> FALSE, ServerWSDL |-> FALSE, returned |-> FALSE]

(***************************************************************************)
(* The identifier sanitizer as the types template applies it               *)
(* (types_tmpl.go), and g.makePublicFn.                                    *)
(***************************************************************************)
\* NewGoWSDL:567-570, g.makePublicFn: the identity unless exportAllTypes
makePublicFn(export, identifier) == IF export THEN makePublic(identifier) ELSE identifier

\* mutant: attribute fields are looked up in the plain table
replaceAttrLikePlain(identifier) == replaceReservedWords(identifier)

\* replaceAttrReservedWords (1024-1030)
replaceAttrReservedWords(identifier) ==
    IF Lookup(reservedWordsInAttr, identifier) # <<>>
    THEN Lookup(reservedWordsInAttr, identifier)
    ELSE normalize(identifier)

NoIdent == [context |-> "", identifier |-> <<>>, replaced |-> <<>>, value |-> <<>>,
            made |-> FALSE]

\* what a template sanitized: the context, the name in the schema, the result
\* of the first function of the pipeline and the result of the pipeline
Sanitized(context, identifier, replaced, value) ==
    [context |-> context, identifier |-> identifier, replaced |-> replaced,
     value |-> value, made |-> TRUE]

\* {{replaceReservedWords .Name | makePublic}}: the name of a declared type
\* (types_tmpl.go:9, 69, 131, 215)
TypeNameOf(export, identifier) ==
    Sanitized("type-name", identifier, replaceReservedWords(identifier),
              makePublicFn(export, replaceReservedWords(identifier)))

\* {{replaceReservedWords .Name | makePublic}}: the field of an element with a
\* reference or a local complex type (types_tmpl.go:93, 106)
ElementFieldNameOf(export, identifier) ==
    Sanitized("field-name", identifier, replaceReservedWords(identifier),
              makePublicFn(export, replaceReservedWords(identifier)))

\* {{normalize .Name | makeFieldPublic}}: the field of an attribute or of an
\* element with a local simple type (types_tmpl.go:51, 53, 99, 101)
FieldNameOf(identifier) ==
    Sanitized("field-name", identifier, normalize(identifier),
              makePublic(normalize(identifier)))

\* {{replaceAttrReservedWords .Name | makeFieldPublic}}: the field of an
\* element with a type attribute (types_tmpl.go:110)
AttrFieldNameOf(identifier) ==
    Sanitized("attribute-field-name", identifier, replaceAttrReservedWords(identifier),
              makePublic(replaceAttrReservedWords(identifier)))

(***************************************************************************)
(* The decoder of complex types: XSDComplexType.UnmarshalXML (177-249),    *)
(* unmarshalSequence (251-296) and unmarshalChoice (298-309).  A document  *)
(* is the list of the children of a complexType element; a child has the   *)
(* namespace and local name of its start tag.                              *)
(***************************************************************************)
xmlschema11 == "http://www.w3.org/2001/XMLSchema"

\* an <element name= minOccurs=> of the schema namespace; "" is an absent attribute
Element(name, minOccurs) ==
    [space |-> xmlschema11, local |-> "element", name |-> name, minOccurs |-> minOccurs,
     kids |-> <<>>]

\* any other start tag with its attributes and children
Node(space, local, minOccurs, kids) ==
    [space |-> space, local |-> local, name |-> "", minOccurs |-> minOccurs, kids |-> kids]

\* XSDElement (125-138): the fields the decoder of complex types writes
XSDElement(node) == [Name |-> node.name, MinOccurs |-> node.minOccurs]

\* decoding into `xml:"element"` of a struct without a namespace in the tag:
\* encoding/xml takes the children with that local name
ElementsOf(node) ==
    LET els == SelectSeq(node.kids, LAMBDA k : k.local = "element")
    IN  [i \in 1..Len(els) |-> XSDElement(els[i])]

\* mutant: the choice's minOccurs is not handed down
unmarshalChoiceAsIs(node) == ElementsOf(node)

\* unmarshalChoice (298-309)
unmarshalChoice(node) ==
    LET x == [MinOccurs |-> node.minOccurs, Elements |-> ElementsOf(node)]
    IN  IF x.MinOccurs # ""
        THEN [i \in 1..Len(x.Elements) |-> [x.Elements[i] EXCEPT !.MinOccurs = x.MinOccurs]]
        ELSE x.Elements

\* a zero XSDComplexType (152-164)
EmptyComplexType ==
    [Sequence |-> <<>>, Choice |-> <<>>, All |-> <<>>, Any |-> <<>>, Attributes |-> <<>>,
     ComplexContent |-> FALSE, SimpleContent |-> FALSE]

\* no complex type is being decoded
IdleDecoder == [doc |-> <<>>, pos |-> 1, seq |-> 0, err |-> FALSE, done |-> TRUE]

\* d positioned after the start tag of a complexType with these children
DecoderAt(doc) == [doc |-> doc, pos |-> 1, seq |-> 0, err |-> FALSE, done |-> FALSE]

Decoding == ~decoder.done /\ ~decoder.err

\* UnmarshalXML:193-245, one turn of Loop on the start tag of a child
DecodeChild ==
    /\ Decoding
    /\ decoder.seq = 0
    /\ decoder.pos <= Len(decoder.doc)
    /\ LET t == decoder.doc[decoder.pos]
           next == [decoder EXCEPT !.pos = @ + 1]
       IN  IF t.space # xmlschema11
           THEN decoder' = next /\ ct' = ct
           ELSE CASE t.local = "attribute" ->
                       /\ ct' = [ct EXCEPT !.Attributes = Append(@, t.name)]
                       /\ decoder' = next
                  [] t.local = "sequence" ->
                       /\ decoder' = [decoder EXCEPT !.seq = 1]
                       /\ ct' = ct
                  [] t.local = "choice" ->
                       /\ ct' = [ct EXCEPT !.Choice = @ \o unmarshalChoice(t)]
                       /\ decoder' = next
                  [] t.local = "all" ->
                       \* DecodeElement is handed the start tag of the complexType,
                       \* which XSDAllType's XMLName `xml:"all"` does not accept
                       /\ decoder' = [decoder EXCEPT !.err = TRUE]
                       /\ ct' = ct
                  [] t.local = "complexContent" ->
                       /\ ct' = [ct EXCEPT !.ComplexContent = TRUE]
                       /\ decoder' = next
                  [] t.local = "simpleContent" ->
                       /\ ct' = [ct EXCEPT !.SimpleContent = TRUE]
                       /\ decoder' = next
                  [] OTHER ->
                       /\ decoder' = next
                       /\ ct' = ct
    /\ UNCHANGED <<nameVars, resolverVars, genVars, typeVars, pc>>

\* unmarshalSequence:253-293, one turn of Loop; the end tag of the sequence
\* returns to UnmarshalXML
DecodeSequenceChild ==
    /\ Decoding
    /\ decoder.seq > 0
    /\ LET kids == decoder.doc[decoder.pos].kids
           next == [decoder EXCEPT !.seq = @ + 1]
       IN  IF decoder.seq > Len(kids)
           THEN /\ decoder' = [decoder EXCEPT !.seq = 0, !.pos = @ + 1]
                /\ ct' = ct
           ELSE LET t == kids[decoder.seq]
                IN  IF t.space # xmlschema11
                    THEN decoder' = next /\ ct' = ct
                    ELSE CASE t.local = "element" ->
                                /\ ct' = [ct EXCEPT !.Sequence = Append(@, XSDElement(t))]
                                /\ decoder' = next
                           [] t.local = "choice" ->
                                /\ ct' = [ct EXCEPT !.Sequence = @ \o unmarshalChoice(t)]
                                /\ decoder' = next
                           [] t.local = "any" ->
                                /\ ct' = [ct EXCEPT !.Any = Append(@, t.minOccurs)]
                                /\ decoder' = next
                           [] OTHER ->
                                /\ decoder' = next
                                /\ ct' = ct
    /\ UNCHANGED <<nameVars, resolverVars, genVars, typeVars, pc>>

\* UnmarshalXML:246-249, the end tag of the complexType
DecodeEnd ==
    /\ Decoding
    /\ decoder.seq = 0
    /\ decoder.pos > Len(decoder.doc)
    /\ decoder' = [decoder EXCEPT !.done = TRUE]
    /\ UNCHANGED <<ct, nameVars, resolverVars, genVars, typeVars, pc>>

\* the generator after NewGoWSDL (558-587): nothing is read, nothing is generated
Constructed ==
    /\ pc = "start"
    /\ err = ""
    /\ schemas = <<>>
    /\ newSchemas = <<>>
    /\ rootIdx = 1
    /\ stack = <<>>
    /\ visited = {}
    /\ level = 0
    /\ fetchLog = <<>>
    /\ decodeLog = <<>>
    /\ task = [t \in Tasks |-> "idle"]
    /\ todo = {}
    /\ result = EmptyResult
    /\ dirs = {}
    /\ files = {}
    /\ currentNamespace = ""
    /\ currentNamespaceMap = NoPrefixes
    /\ imports = NoImports
    /\ call = NoCall
    /\ run = [t \in Tasks |-> IdleRun]
    /\ generated = EmptyGenerated

\* the state after NewGoWSDL (558-587), main about to call Start; the flag
\* make-public of main is true unless given (main.go:75)
InitProgram ==
    /\ Constructed
    /\ exportAllTypes = TRUE
    /\ ident = NoIdent
    /\ decoder = IdleDecoder
    /\ ct = EmptyComplexType

Init ==
    /\ nsToPkg \in Mappings
    /\ \/ \E g \in Graphs, fail \in Failures, t \in TnsChoices :
             /\ world = TableWorld(g, fail, t)
             /\ wsdlFile = TableWsdl(g, fail, t)
       \/ \E kind \in Generators :
             /\ world = GenWorld(kind)
             /\ wsdlFile = GenWsdl(kind)
       \/ \E parts \in PartChoices, peer \in Peers :
             /\ world = TableWorld(GraphPlain, [at |-> NoLoc, st |-> "ok"],
                                   [root |-> "urn:a", t01 |-> "urn:a", t11 |-> "urn:a"])
             /\ wsdlFile = TypedWsdl(parts, peer)
    /\ InitProgram

Next ==
    \/ FetchRoot
    \/ NextRoot
    \/ SkipStep
    \/ DownloadStep
    \/ ReturnNested
    \/ ReturnRoot
    \/ FinishUnmarshal
    \/ MainFatal
    \/ Launch
    \/ GenTypes
    \/ \E t \in Tasks : TemplateCall(t)
    \/ ConcurrentMapAccess
    \/ GenTypesReturn
    \/ TypesDone
    \/ GenOperations
    \/ GenServer
    \/ WaitDone
    \/ GenHeader
    \/ FinishStart
    \/ MkdirPkg
    \/ MkdirSub
    \/ WriteMain
    \/ WriteSub
    \/ WriteServer

Spec == Init /\ [][Next]_vars

(***************************************************************************)
(* The type mapper on its own: the template functions setNS, setNSMap and  *)
(* toGoType, called with any arguments in any order.                       *)
(***************************************************************************)
TypeRefs ==
    {<<"x", "s", ":", "s", "t", "r", "i", "n", "g">>,
     <<"x", "s", ":", "I", "N", "T">>,
     <<"t", "n", "s", ":", "F", "o", "o">>,
     <<"e", "x", "t", ":", "f", "o", "o">>,
     <<"e", "x", "t", ":", "S", "t", "r", "i", "n", "g">>,
     <<"f", "o", "o">>,
     <<"t", "y", "p", "e">>,
     <<>>,
     <<"a", ":", "b", ":", "c">>}

MinOccursValues ==
    {<<>>,
     <<"0">>,
     <<"1">>,
     <<"5">>,
     <<"0", "0">>}

TargetNamespaces == {"", "urn:a", "urn:b"}

PrefixMaps == {NoPrefixes, DocPrefixes}

\* setNS (485-488)
setNS ==
    /\ \E ns \in TargetNamespaces : currentNamespace' = ns
    /\ UNCHANGED <<nameVars, decodeVars, resolverVars, genVars, pc, currentNamespaceMap, imports, call>>

\* setNSMap (495-498)
setNSMap ==
    /\ \E nsMap \in PrefixMaps : currentNamespaceMap' = nsMap
    /\ UNCHANGED <<nameVars, decodeVars, resolverVars, genVars, pc, currentNamespace, imports, call>>

\* the references every value of minOccurs is tried with: a built-in type, a
\* type of another package and a type of the package being generated
KeyRefs ==
    {<<"x", "s", ":", "s", "t", "r", "i", "n", "g">>,
     <<"e", "x", "t", ":", "f", "o", "o">>,
     <<"f", "o", "o">>}

\* the arguments toGoType is called with
CallArgs ==
    {a \in [xsdType : TypeRefs, nillable : BOOLEAN, minOccurs : MinOccursValues] :
        a.xsdType \in KeyRefs \/ a.minOccurs = <<"1">>}

\* one call of toGoType (1102-1138)
CallToGoType ==
    /\ \E a \in CallArgs :
        LET xsdType == a.xsdType  nillable == a.nillable  minOccurs == a.minOccurs IN
          /\ call' = [xsdType   |-> xsdType,
                      nillable  |-> nillable,
                      minOccurs |-> minOccurs,
                      value     |-> toGoType(xsdType, nillable, minOccurs, currentNamespace,
                                             currentNamespaceMap, nsToPkg),
                      made      |-> TRUE]
          /\ imports' = toGoTypeImports(imports, xsdType, currentNamespace,
                                        currentNamespaceMap, nsToPkg)
    /\ UNCHANGED <<nameVars, decodeVars, resolverVars, genVars, pc, currentNamespace, currentNamespaceMap>>

\* the generator as a template sees it: the WSDL is read, generation is running
InitType ==
    /\ nsToPkg \in Mappings
    /\ world = TableWorld(GraphPlain, [at |-> NoLoc, st |-> "ok"],
                          [root |-> "urn:a", t01 |-> "urn:a", t11 |-> "urn:a"])
    /\ wsdlFile = TableWsdl(GraphPlain, [at |-> NoLoc, st |-> "ok"],
                            [root |-> "urn:a", t01 |-> "urn:a", t11 |-> "urn:a"])
    /\ pc = "wait"
    /\ err = ""
    /\ schemas = <<Schema(rootLoc, wsdlFile.schemas[1])>>
    /\ newSchemas = <<>>
    /\ rootIdx = 2
    /\ stack = <<>>
    /\ visited = {}
    /\ level = 0
    /\ fetchLog = <<rootLoc>>
    /\ decodeLog = <<rootLoc>>
    /\ task = [t \in Tasks |-> "running"]
    /\ todo = Namespaces(nsToPkg)
    /\ result = EmptyResult
    /\ dirs = {}
    /\ files = {}
    /\ currentNamespace = ""
    /\ currentNamespaceMap = NoPrefixes
    /\ imports = NoImports
    /\ call = NoCall
    /\ run = [t \in Tasks |-> IdleRun]
    /\ generated = EmptyGenerated
    /\ exportAllTypes = TRUE
    /\ ident = NoIdent
    /\ decoder = IdleDecoder
    /\ ct = EmptyComplexType

NextType ==
    \/ setNS
    \/ setNSMap
    \/ CallToGoType

SpecType == InitType /\ [][NextType]_vars

(***************************************************************************)
(* The sanitizer applied to a bounded set of identifiers.                  *)
(***************************************************************************)
\* the names a schema may give: every word of the two tables, names the
\* generic transform changes, and names it leaves alone
Identifiers ==
    {reservedWordsInAttr[i][1] : i \in 1..Len(reservedWordsInAttr)} \cup
    {<<>>,
     <<"f", "o", "o">>,
     <<"F", "o", "o">>,
     <<"1", "a">>,
     <<"9">>,
     <<"g", "o", "!">>,
     <<"!">>,
     <<"!", "a">>,
     <<"a", ".", "b">>,
     <<"a", "-", "b">>,
     <<"-", "a">>,
     <<"a", "+", "b">>,
     <<"@", "a">>,
     <<"_">>,
     <<"i", "n", "t">>,
     <<"a", " ", "b">>,
     <<"S", "t", "r", "i", "n", "g">>,
     <<"a", "s", "t", "r", "i", "n", "g">>}

\* types_tmpl.go:9, 69, 131, 215
SanitizeTypeName ==
    /\ \E identifier \in Identifiers : ident' = TypeNameOf(exportAllTypes, identifier)
    /\ UNCHANGED <<exportAllTypes, decodeVars, resolverVars, genVars, typeVars, pc>>

\* types_tmpl.go:93, 106
SanitizeElementFieldName ==
    /\ \E identifier \in Identifiers : ident' = ElementFieldNameOf(exportAllTypes, identifier)
    /\ UNCHANGED <<exportAllTypes, decodeVars, resolverVars, genVars, typeVars, pc>>

\* types_tmpl.go:51, 53, 99, 101
SanitizeFieldName ==
    /\ \E identifier \in Identifiers : ident' = FieldNameOf(identifier)
    /\ UNCHANGED <<exportAllTypes, decodeVars, resolverVars, genVars, typeVars, pc>>

\* types_tmpl.go:110
SanitizeAttrFieldName ==
    /\ \E identifier \in Identifiers : ident' = AttrFieldNameOf(identifier)
    /\ UNCHANGED <<exportAllTypes, decodeVars, resolverVars, genVars, typeVars, pc>>

\* a reference to the type sanitized last by its bare name, neither nillable
\* nor optional: {{toGoType .Type false ""}} (types_tmpl.go:51), toGoType
\* (1102-1138)
ReferToType ==
    /\ ident.made
    /\ \E identifier \in {ident.identifier} :
          /\ call' = [xsdType   |-> identifier,
                      nillable  |-> FALSE,
                      minOccurs |-> <<>>,
                      value     |-> toGoType(identifier, FALSE, <<>>, currentNamespace,
                                             currentNamespaceMap, nsToPkg),
                      made      |-> TRUE]
          /\ imports' = toGoTypeImports(imports, identifier, currentNamespace,
                                        currentNamespaceMap, nsToPkg)
    /\ UNCHANGED <<nameVars, decodeVars, resolverVars, genVars, pc, currentNamespace,
                   currentNamespaceMap>>

InitName ==
    /\ nsToPkg = NoMapping
    /\ world = TableWorld(GraphPlain, [at |-> NoLoc, st |-> "ok"],
                          [root |-> "urn:a", t01 |-> "urn:a", t11 |-> "urn:a"])
    /\ wsdlFile = TableWsdl(GraphPlain, [at |-> NoLoc, st |-> "ok"],
                            [root |-> "urn:a", t01 |-> "urn:a", t11 |-> "urn:a"])
    /\ Constructed
    /\ exportAllTypes \in BOOLEAN
    /\ ident = NoIdent
    /\ decoder = IdleDecoder
    /\ ct = EmptyComplexType

NextName ==
    \/ SanitizeTypeName
    \/ SanitizeElementFieldName
    \/ SanitizeFieldName
    \/ SanitizeAttrFieldName
    \/ ReferToType

SpecName == InitName /\ [][NextName]_vars

(***************************************************************************)
(* The decoder of complex types applied to a bounded set of documents.     *)
(***************************************************************************)
MaxKids == 2   \* children of a sequence

ElementC == Element("c", "1")

ElementD == Element("d", "")

\* the children a sequence is built from: elements with and without minOccurs,
\* nested choices with and without minOccurs, a wildcard, an unknown child
\* and a child of another namespace
SequenceKids ==
    {Element("a", ""),
     Element("b", "1"),
     Node(xmlschema11, "choice", "", <<ElementC, ElementD>>),
     Node(xmlschema11, "choice", "0", <<ElementC, ElementD>>),
     Node(xmlschema11, "any", "0", <<>>),
     Node(xmlschema11, "annotation", "", <<>>),
     Node("urn:x", "element", "", <<>>)}

RECURSIVE SeqsUpTo(_, _)
\* the sequences over S of length at most n
SeqsUpTo(S, n) ==
    IF n = 0 THEN {<<>>}
    ELSE LET shorter == SeqsUpTo(S, n - 1)
         IN  shorter \cup {Append(s, x) : s \in shorter, x \in S}

Sequences == {Node(xmlschema11, "sequence", "", kids) : kids \in SeqsUpTo(SequenceKids, MaxKids)}

\* the children a complexType has next to a sequence
Siblings ==
    {Node(xmlschema11, "sequence", "", <<Element("e", "")>>),
     Node(xmlschema11, "choice", "", <<Element("f", "1"), Element("g", "")>>),
     Node(xmlschema11, "choice", "2", <<Element("f", "1"), Element("g", "")>>),
     [Node(xmlschema11, "attribute", "", <<>>) EXCEPT !.name = "h"],
     Node(xmlschema11, "all", "", <<Element("i", "")>>),
     Node(xmlschema11, "complexContent", "", <<>>),
     Node(xmlschema11, "simpleContent", "", <<>>),
     Node(xmlschema11, "annotation", "", <<>>),
     Node("urn:x", "sequence", "", <<Element("j", "")>>)}

\* the children of the complexType being decoded
Documents ==
    {<<>>} \cup {<<x>> : x \in Sequences \cup Siblings}
           \cup {<<x, y>> : x \in Sequences \cup Siblings, y \in Siblings}
           \cup {<<y, x>> : x \in Sequences, y \in Siblings}

InitDecode ==
    /\ nsToPkg = NoMapping
    /\ world = TableWorld(GraphPlain, [at |-> NoLoc, st |-> "ok"],
                          [root |-> "urn:a", t01 |-> "urn:a", t11 |-> "urn:a"])
    /\ wsdlFile = TableWsdl(GraphPlain, [at |-> NoLoc, st |-> "ok"],
                            [root |-> "urn:a", t01 |-> "urn:a", t11 |-> "urn:a"])
    /\ Constructed
    /\ exportAllTypes = TRUE
    /\ ident = NoIdent
    /\ \E doc \in Documents : decoder = DecoderAt(doc)
    /\ ct = EmptyComplexType

NextDecode ==
    \/ DecodeChild
    \/ DecodeSequenceChild
    \/ DecodeEnd

SpecDecode == InitDecode /\ [][NextDecode]_vars

\* Start up to the return of unmarshal (609-616) and main's answer to an error
\* of Start: the steps of one thread, each taken when it is enabled
NextResolve ==
    \/ FetchRoot
    \/ NextRoot
    \/ SkipStep
    \/ DownloadStep
    \/ ReturnNested
    \/ ReturnRoot
    \/ FinishUnmarshal
    \/ MainFatal

LiveSpec == Init /\ [][NextResolve]_vars /\ WF_vars(NextResolve)

(***************************************************************************)
(* Properties of the resolver.                                             *)
(***************************************************************************)
NoDuplicates(seq) == \A i, j \in 1..Len(seq) : seq[i] = seq[j] => i = j

KeysOf(log) == [i \in 1..Len(log) |-> LocationString(log[i])]

Origins(ss) == [i \in 1..Len(ss) |-> LocationString(ss[i].origin)]

\* the resolution pass is over and unmarshal returned nil
Resolved == pc \notin {"start", "resolve", "startFailed", "fatal"} \/ result.returned

\* the pass is inside a loop of resolveXSDExternals, at a reference
AtReference == pc = "resolve" /\ stack # <<>> /\ Top.i <= Len(Top.refs)

CurrentRef == Top.refs[Top.i]

\* the document whose references the innermost call is resolving
Referrer == IF Len(stack) = 1 THEN schemas[rootIdx] ELSE stack[Len(stack) - 1].pend[1]

\* the documents resolveXSDExternals has added to the schemas of the WSDL
Externals == SubSeq(schemas, Len(wsdlFile.schemas) + 1, Len(schemas))

\* C1: during one resolution pass every location is fetched at most once and
\* decoded at most once, and contributes at most one document to the schemas
\* the pass collects.
C1_EachLocationOnce ==
    /\ NoDuplicates(KeysOf(fetchLog))
    /\ NoDuplicates(KeysOf(decodeLog))
    /\ NoDuplicates(Origins(newSchemas))

\* C2: the resolution pass terminates, on cyclic graphs and on graphs in which
\* every document names documents not seen before.
C2_Terminates == <>(pc \notin {"start", "resolve"})

C2_Witness ==
    /\ pc = "traverse"
    /\ world.kind = "tree"
    /\ level = maxRecursion
    /\ \E i \in 1..Len(schemas) : HasExternals(schemas[i]) /\
          \E j \in 1..Len(schemas[i].includes) :
             LocationString(LocationParse(schemas[i].origin, schemas[i].includes[j]))
                \notin visited

\* the location a download of the current reference would fetch
CurrentLocation == LocationParse(Top.loc, CurrentRef.ref)

\* an import without schemaLocation
NoLocationImport(r) == r.imp /\ r.ref.k = "none"

\* this step hands a location to fetchFile
Fetches == fetchLog' # fetchLog

\* C3: deduplication is keyed by the resolved location string alone: a reference
\* is skipped exactly when the string of its location is in the visited set, and
\* after a successful pass every fetched document is among the schemas once,
\* whatever target namespaces the documents declare.
C3_DedupByLocation ==
    /\ [](Resolved => \A i \in 2..Len(fetchLog) :
             Cardinality({j \in 1..Len(Externals) :
                             Externals[j].origin = fetchLog[i]}) = 1)
    /\ [][(AtReference /\ ~NoLocationImport(CurrentRef) /\ CurrentLocation # NoLoc)
             => (Fetches <=> LocationString(CurrentLocation) \notin visited)]_vars

C3_Witness ==
    /\ pc = "traverse"
    /\ \E i, j \in 1..Len(Externals) :
          /\ Externals[i].origin # Externals[j].origin
          /\ Externals[i].tns = Externals[j].tns

\* a location was handed to fetchFile and the fetch failed
FetchFailed == \E i \in 1..Len(fetchLog) : FileAt(world, wsdlFile, fetchLog[i]).st = "nofetch"

\* C4: once a fetch has failed, Start returns an error and no result, no
\* generation task is started, the schemas of the WSDL are not extended and main
\* writes no file.
C4_FetchFailureAborts ==
    FetchFailed =>
        /\ pc \in {"startFailed", "fatal"}
        /\ result = EmptyResult
        /\ \A t \in Tasks : task[t] = "idle"
        /\ Len(schemas) <= Len(wsdlFile.schemas)
        /\ files = {}

C4_Witness ==
    /\ FetchFailed
    /\ pc = "fatal"
    /\ Len(decodeLog) >= 3
    /\ Len(schemas) = Len(wsdlFile.schemas)

\* C5: in multi-package mode a document whose target namespace has no package
\* mapping ends the resolution as soon as it is decoded: nothing is fetched
\* after it, and no reference of a root schema without a mapping is fetched.
C5_FailsBeforeReferences ==
    /\ \A i \in 2..Len(decodeLog) :
          NoPackageMapping(nsToPkg, FileAt(world, wsdlFile, decodeLog[i]).tns)
             => fetchLog[Len(fetchLog)] = decodeLog[i]
    /\ (pc = "resolve" /\ stack # <<>>)
          => ~NoPackageMapping(nsToPkg, schemas[rootIdx].tns)

\* C6: the recursion counter stays within 0..20, never decreases, and grows by
\* one exactly when a freshly fetched document that carries references is
\* recursed into; the wide world reaches the ceiling at call depth 2.
C6_GlobalCounter ==
    /\ [](level \in 0..maxRecursion)
    /\ [](world.kind = "star" => Len(stack) <= 2)
    /\ [][/\ level' >= level
          /\ level' # level =>
                /\ level' = level + 1
                /\ AtReference /\ Fetches
                /\ HasExternals(FileAt(world, wsdlFile, CurrentLocation))
          /\ (Len(stack) >= 1 /\ Len(stack') = Len(stack) + 1) => level' = level + 1]_vars

C6_Witness ==
    /\ world.kind = "star"
    /\ level = maxRecursion
    /\ Len(stack) = 2
    /\ Len(fetchLog) < 3 * maxRecursion

\* C7: at the ceiling a fetched document is decoded and added to the results of
\* the call that fetched it, no nested call is made for its references and no
\* error is raised; the pass ends with as many external schemas as it fetched.
C7_CeilingIsNotAnError ==
    /\ [](Resolved => Len(Externals) = Len(fetchLog) - 1)
    /\ [][(/\ AtReference
           /\ level = maxRecursion
           /\ Fetches
           /\ FileAt(world, wsdlFile, CurrentLocation).st = "ok"
           /\ ~NoPackageMapping(nsToPkg, FileAt(world, wsdlFile, CurrentLocation).tns))
             => /\ Len(stack') = Len(stack)
                /\ pc' = "resolve"
                /\ err' = ""
                /\ level' = level
                /\ stack'[Len(stack')].result =
                      Append(Top.result,
                             Schema(CurrentLocation, FileAt(world, wsdlFile, CurrentLocation)))]_vars

C7_Witness ==
    /\ pc = "traverse"
    /\ world.kind = "star"
    /\ level = maxRecursion
    /\ \E i \in 1..Len(Externals) :
          /\ HasExternals(Externals[i])
          /\ \A j \in 1..Len(Externals[i].includes) :
                LocationString(LocationParse(Externals[i].origin, Externals[i].includes[j]))
                   \notin visited

\* the references of a schema that carry a location, imports first
LocatedRefs(sc) ==
    {sc.imports[i] : i \in {k \in 1..Len(sc.imports) : sc.imports[k].k # "none"}}
    \cup {sc.includes[i] : i \in 1..Len(sc.includes)}

\* C8: an import without schemaLocation causes no fetch, leaves the visited set
\* and the recursion counter alone and raises no error; the loop moves on to the
\* next reference, so that below the ceiling every located reference of every
\* schema ends up visited.
C8_ImportWithoutLocation ==
    /\ [](Resolved /\ level < maxRecursion =>
             \A i \in 1..Len(schemas) : \A r \in LocatedRefs(schemas[i]) :
                LocationString(LocationParse(schemas[i].origin, r)) \in visited)
    /\ [][(AtReference /\ NoLocationImport(CurrentRef))
             => /\ fetchLog' = fetchLog
                /\ decodeLog' = decodeLog
                /\ visited' = visited
                /\ level' = level
                /\ pc' = "resolve"
                /\ err' = ""
                /\ stack' = SetTop([Top EXCEPT !.i = @ + 1])]_vars

C8_Witness ==
    /\ pc = "traverse"
    /\ \E i \in 1..Len(schemas) :
          /\ Len(schemas[i].imports) >= 2
          /\ schemas[i].imports[1].k = "none"
          /\ LocationString(LocationParse(schemas[i].origin, schemas[i].imports[2])) \in visited
          /\ \E j \in 1..Len(schemas[i].includes) :
                LocationString(LocationParse(schemas[i].origin, schemas[i].includes[j]))
                   \in visited

\* C9: every fetched reference is resolved against the location of the document
\* that contains it.
C9_RelativeToReferrer ==
    /\ [](AtReference => Top.refs = RefsOf(Referrer))
    /\ [][(pc = "resolve" /\ Fetches)
             => /\ AtReference
                /\ fetchLog' = Append(fetchLog,
                                      LocationParse(Referrer.origin, CurrentRef.ref))]_vars

C9_Witness ==
    /\ pc = "resolve"
    /\ \E k \in 2..Len(stack) :
          LET referrer == stack[k - 1].pend[1]
          IN  /\ referrer.origin # rootLoc
              /\ \E r \in LocatedRefs(referrer) :
                    /\ LocationParse(referrer.origin, r) # LocationParse(rootLoc, r)
                    /\ LocationParse(referrer.origin, r) = fetchLog[Len(fetchLog)]

(***************************************************************************)
(* Properties of the type mapper.                                          *)
(***************************************************************************)
\* C10: toGoType returns a pointer-prefixed type exactly when nillable is true
\* or minOccurs is the string "0"; the rest of the result is the required type.
C10_Optionality ==
    [][call' # call =>
          LET required == toGoType(call'.xsdType, FALSE, <<>>, currentNamespace,
                                   currentNamespaceMap, nsToPkg)
              optional == call'.nillable \/ call'.minOccurs = <<"0">>
          IN  /\ (call'.value # <<>> /\ Head(call'.value) = "*") <=> optional
              /\ call'.value = (IF optional THEN <<"*">> ELSE <<>>) \o required]_vars

C10_Witness ==
    /\ call.made
    /\ call.minOccurs = <<"0", "0">>
    /\ ~call.nillable
    /\ BuiltIn(call.xsdType) = <<>>
    /\ call.value = <<"p", "b", ".", "F", "o", "o">>

\* the part of a reference after its prefix, the prefix, and whether the lowered
\* local name is a key of the built-in table
RefParts(xsdType) == Split(xsdType, ":")

RefLocal(xsdType) ==
    IF Len(RefParts(xsdType)) = 2 THEN RefParts(xsdType)[2] ELSE RefParts(xsdType)[1]

RefIsBuiltIn(xsdType) == HasKey(xsd2GoTypes, ToLower(RefLocal(xsdType)))

\* a value of toGoType without the pointer prefix
Unpointered(value) == IF value # <<>> /\ Head(value) = "*" THEN Tail(value) ELSE value

\* C11: when the lowered local name of a reference is in the built-in table,
\* toGoType returns the table's target type, whatever the prefix, the current
\* namespace, the prefix map and the package mapping are, without a package
\* qualifier, and leaves the import table unchanged.
C11_BuiltInShortCircuit ==
    [][call' # call =>
          \A x \in {call'.xsdType} :
             RefIsBuiltIn(x)
                => /\ Unpointered(call'.value) = Lookup(xsd2GoTypes, ToLower(RefLocal(x)))
                   /\ imports' = imports]_vars

C11_Witness ==
    /\ call.made
    /\ call.xsdType = <<"e", "x", "t", ":", "S", "t", "r", "i", "n", "g">>
    /\ call.value = <<"s", "t", "r", "i", "n", "g">>
    /\ currentNamespaceMap = DocPrefixes
    /\ currentNamespace = "urn:a"
    /\ getNSPackage(nsToPkg, "urn:b") # <<>>
    /\ imports = NoImports

\* the namespace a prefixed reference belongs to, and its package
RefNamespace(xsdType) ==
    IF RefParts(xsdType)[1] \in DOMAIN currentNamespaceMap
    THEN currentNamespaceMap[RefParts(xsdType)[1]]
    ELSE ""

RefPackage(xsdType) ==
    IF RefNamespace(xsdType) \in DOMAIN nsToPkg THEN nsToPkg[RefNamespace(xsdType)] ELSE <<>>

\* C12: a reference that is not built-in and whose prefix resolves to a
\* namespace other than the current one, with a package, comes back as
\* package.Name and the package is in the import list of the current namespace
\* afterwards, the lists of the other namespaces unchanged; a reference of the
\* current namespace or without a prefix comes back unqualified and leaves the
\* import table unchanged.
C12_CrossNamespace ==
    [][call' # call =>
          \A x \in {call'.xsdType}, value \in {Unpointered(call'.value)} :
             (~RefIsBuiltIn(x) /\ Len(RefParts(x)) <= 2) =>
                \A name \in {replaceReservedWords(makePublic(RefLocal(x)))} :
                   IF Len(RefParts(x)) = 2 /\ RefNamespace(x) # currentNamespace
                                          /\ RefPackage(x) # <<>>
                   THEN /\ value = RefPackage(x) \o <<".">> \o name
                        /\ RefPackage(x) \in Range(ImportsOf(imports', currentNamespace))
                        /\ \A ns \in DOMAIN imports : ns # currentNamespace
                              => ns \in DOMAIN imports' /\ imports'[ns] = imports[ns]
                        /\ DOMAIN imports' = DOMAIN imports \cup {currentNamespace}
                   ELSE (Len(RefParts(x)) = 1 \/ RefNamespace(x) = currentNamespace)
                            => /\ value = name
                               /\ imports' = imports]_vars

C12_Witness ==
    /\ call.made
    /\ call.xsdType = <<"e", "x", "t", ":", "f", "o", "o">>
    /\ call.value = <<"p", "b", ".", "F", "o", "o">>
    /\ currentNamespace = "urn:a"
    /\ "urn:a" \in DOMAIN imports
    /\ imports["urn:a"] = <<<<"p", "b">>>>
    /\ call.minOccurs = <<"1">>

(***************************************************************************)
(* Properties of the generation orchestrator.                              *)
(***************************************************************************)
\* C13: the import list of every namespace holds each package at most once,
\* whichever goroutines made the calls of toGoType that recorded them.
C13_ImportsOnce == \A ns \in DOMAIN imports : NoDuplicates(imports[ns])

\* C14: no header is generated before the types, operations and server
\* goroutines have finished; once a header exists g.imports does not change any
\* more; so when Start returns every header lists exactly the imports recorded
\* for the namespace it was generated for.
C14_HeadersLast ==
    /\ [](result.Header # {} =>
             \A t \in Tasks : task[t] = "done" /\ run[t].calls = <<>> /\ ~run[t].active)
    /\ [][generated'.Header # generated.Header => \A t \in Tasks : task[t] = "done"]_vars
    /\ [][result.Header # {} => imports' = imports]_vars
    /\ [](result.returned =>
             /\ DOMAIN generated.Header = {PkgKey(nsToPkg, ns) : ns \in Namespaces(nsToPkg)}
             /\ \A k \in DOMAIN generated.Header :
                   generated.Header[k].Imports = ImportsOf(imports, generated.Header[k].ns))

C14_Witness ==
    /\ result.returned
    /\ wsdlFile.parts # <<>>
    /\ <<"p", "a">> \in DOMAIN generated.Header
    /\ generated.Header[<<"p", "a">>].Imports = <<<<"p", "b">>>>
    /\ <<"p", "b">> \in DOMAIN generated.Header
    /\ generated.Header[<<"p", "b">>].Imports = <<<<"p", "a">>>>

RECURSIVE RunRefs(_, _, _)
\* g.imports after the calls of toGoType for the references refs of schema s,
\* made one after the other
RunRefs(imp, s, refs) ==
    IF refs = <<>> THEN imp
    ELSE RunRefs(toGoTypeImports(imp, Head(refs), s.tns, s.xmlns, nsToPkg), s, Tail(refs))

RECURSIVE RunSchemas(_, _)
RunSchemas(imp, ss) ==
    IF ss = <<>> THEN imp ELSE RunSchemas(RunRefs(imp, Head(ss), Head(ss).refs), Tail(ss))

\* the import table the schema model determines: the type references of every
\* schema, read under the schema's own namespace and xmlns declarations
SchemaImports == RunSchemas(NoImports, schemas)

\* C15: after the barrier the set of packages recorded for each namespace is the
\* one the schema model determines, whatever the interleaving of the goroutines.
C15_ImportsIndependentOfSchedule ==
    (pc = "headers") =>
        \A ns \in DOMAIN imports \cup DOMAIN SchemaImports :
            Range(ImportsOf(imports, ns)) = Range(ImportsOf(SchemaImports, ns))

\* the order of the reference run: the namespaces of g.nsToPkg in a fixed order
NamespaceOrder == IF MultiPackage(nsToPkg) THEN <<"urn:a", "urn:b">> ELSE <<"">>

\* the namespace whose output the reference run leaves under a key
LastWith(k) ==
    NamespaceOrder[CHOOSE i \in 1..Len(NamespaceOrder) :
                      /\ PkgKey(nsToPkg, NamespaceOrder[i]) = k
                      /\ \A j \in (i + 1)..Len(NamespaceOrder) :
                            PkgKey(nsToPkg, NamespaceOrder[j]) # k]

RECURSIVE SchemasOut(_)
\* what the types template writes for schemas ss, every reference read under
\* its schema's namespace and xmlns declarations
SchemasOut(ss) ==
    IF ss = <<>> THEN <<>>
    ELSE [i \in 1..Len(Head(ss).refs) |->
             toGoType(Head(ss).refs[i], FALSE, <<>>, Head(ss).tns, Head(ss).xmlns, nsToPkg)]
         \o SchemasOut(Tail(ss))

\* what the operations and the server template write when they run before any
\* call of setNS and setNSMap
PortTypesOut ==
    [i \in 1..Len(wsdlFile.parts) |->
        toGoType(wsdlFile.parts[i], FALSE, <<>>, "", NoPrefixes, nsToPkg)]

\* the GenerationResult of the reference run: operations and server first, then
\* the types and the headers in the order NamespaceOrder
ReferenceGenerated ==
    [Types  |-> [k \in {PkgKey(nsToPkg, ns) : ns \in Namespaces(nsToPkg)} |->
                    [ns |-> LastWith(k), out |-> SchemasOut(FilterNamespace(schemas, LastWith(k)))]],
     Header |-> [k \in {PkgKey(nsToPkg, ns) : ns \in Namespaces(nsToPkg)} |->
                    [ns |-> LastWith(k), Imports |-> ImportsOf(SchemaImports, LastWith(k))]],
     Operations |-> PortTypesOut,
     Server     |-> PortTypesOut]

\* C16: Start's GenerationResult is a function of the documents and the
\* configuration: every run returns what the reference run returns, whatever
\* the iteration order over g.nsToPkg and the scheduling of the goroutines.
C16_Deterministic == result.returned => generated = ReferenceGenerated

\* the reference run is one of the runs
C16_ReferenceRun ==
    /\ result.returned
    /\ generated = ReferenceGenerated
    /\ nsToPkg = [ns \in {"urn:a", "urn:b"} |-> <<"p">>]

(***************************************************************************)
(* Properties of the identifier sanitizer.                                 *)
(***************************************************************************)
\* the keywords of Go: the keys of reservedWords (952-978)
IsKeyword(s) == HasKey(reservedWords, s)

\* a Go identifier that is not a keyword
LegalIdentifier(s) ==
    /\ s # <<>>
    /\ \A i \in 1..Len(s) : IsLetter(s[i]) \/ IsDigit(s[i]) \/ s[i] = "_"
    /\ ~IsDigit(s[1])
    /\ ~IsKeyword(s)

\* C17: in every context (type name, field name, attribute-field name) the
\* sanitized identifier is a legal Go identifier: non-empty, made of letters,
\* digits and underscores only, not starting with a digit, not a keyword.
C17_LegalIdentifier == ident.made => LegalIdentifier(ident.value)

\* the sanitizer does produce legal identifiers for ordinary names
C17_LegalReached ==
    /\ ident.made
    /\ ident.identifier = <<"a", "-", "b">>
    /\ ident.value = <<"A", "_", "b">>

TableKeys(table) == {table[i][1] : i \in 1..Len(table)}

ExtraWord == <<"s", "t", "r", "i", "n", "g">>

\* C18: the attribute-field table is the plain table plus exactly the word
\* "string", and replaceAttrReservedWords returns what replaceReservedWords
\* returns for every identifier except "string", where the two differ.
C18_OneExtraWord ==
    /\ TableKeys(reservedWordsInAttr) = TableKeys(reservedWords) \cup {ExtraWord}
    /\ ExtraWord \notin TableKeys(reservedWords)
    /\ \A k \in TableKeys(reservedWords) :
          Lookup(reservedWordsInAttr, k) = Lookup(reservedWords, k)
    /\ (ident.made /\ ident.context = "attribute-field-name") =>
          ((ident.replaced = replaceReservedWords(ident.identifier))
              <=> (ident.identifier # ExtraWord))

C18_Witness ==
    /\ ident.made
    /\ ident.context = "attribute-field-name"
    /\ ident.identifier = ExtraWord
    /\ ident.replaced = <<"a", "s", "t", "r", "i", "n", "g">>
    /\ replaceReservedWords(ident.identifier) = ExtraWord

Placeholder == <<"E", "m", "p", "t", "y", "S", "t", "r", "i", "n", "g">>

\* C19: in every context and for both values of exportAllTypes the empty
\* identifier is sanitized to the placeholder, never to the empty string.
C19_EmptyPlaceholder ==
    (ident.made /\ ident.identifier = <<>>) => ident.value = Placeholder

\* the placeholder is what the field contexts give
C19_PlaceholderReached ==
    /\ ident.made
    /\ ident.identifier = <<>>
    /\ ident.value = Placeholder

(***************************************************************************)
(* Properties of the decoder of complex types.                             *)
(***************************************************************************)
IsSchemaNode(n, local) == n.space = xmlschema11 /\ n.local = local

\* an element of a choice as the claim wants it decoded
Carried(choice, e) ==
    [Name |-> e.name,
     MinOccurs |-> IF choice.minOccurs # "" THEN choice.minOccurs ELSE e.minOccurs]

ChoiceElements(choice) ==
    LET els == SelectSeq(choice.kids, LAMBDA k : k.local = "element")
    IN  [i \in 1..Len(els) |-> Carried(choice, els[i])]

RECURSIVE Flattened(_)
\* the elements of a sequence in document order, each nested choice replaced
\* by its elements
Flattened(kids) ==
    IF kids = <<>> THEN <<>>
    ELSE LET k == Head(kids)
         IN  (IF IsSchemaNode(k, "element") THEN <<[Name |-> k.name, MinOccurs |-> k.minOccurs]>>
              ELSE IF IsSchemaNode(k, "choice") THEN ChoiceElements(k)
              ELSE <<>>) \o Flattened(Tail(kids))

RECURSIVE ExpectedSequence(_)
ExpectedSequence(doc) ==
    IF doc = <<>> THEN <<>>
    ELSE (IF IsSchemaNode(Head(doc), "sequence") THEN Flattened(Head(doc).kids) ELSE <<>>)
         \o ExpectedSequence(Tail(doc))

RECURSIVE ExpectedChoice(_)
ExpectedChoice(doc) ==
    IF doc = <<>> THEN <<>>
    ELSE (IF IsSchemaNode(Head(doc), "choice") THEN ChoiceElements(Head(doc)) ELSE <<>>)
         \o ExpectedChoice(Tail(doc))

\* C20: after a complex type is decoded its Sequence list holds, in document
\* order, the elements of its sequences with the elements of every nested
\* choice at the place of the choice; an element of a choice has the choice's
\* minOccurs when the choice sets one and its own otherwise; the elements of
\* a choice directly under the complex type are in the Choice list and not
\* in the Sequence list.
C20_SequenceFlattened ==
    (decoder.done /\ ~decoder.err /\ decoder.doc # <<>>) =>
        /\ ct.Sequence = ExpectedSequence(decoder.doc)
        /\ ct.Choice = ExpectedChoice(decoder.doc)
        /\ \A i \in 1..Len(ct.Sequence) : ct.Sequence[i].Name \notin {"f", "g"}

\* a sequence of a choice without and a choice with minOccurs, next to a
\* choice of the complex type itself
C20_Witness ==
    /\ decoder.done
    /\ ~decoder.err
    /\ ct.Sequence = <<[Name |-> "c", MinOccurs |-> "1"], [Name |-> "d", MinOccurs |-> ""],
                       [Name |-> "c", MinOccurs |-> "0"], [Name |-> "d", MinOccurs |-> "0"]>>
    /\ ct.Choice = <<[Name |-> "f", MinOccurs |-> "2"], [Name |-> "g", MinOccurs |-> "2"]>>

RECURSIVE ExpectedAll(_)
\* the elements of the all particles of a complex type, in document order
ExpectedAll(doc) ==
    IF doc = <<>> THEN <<>>
    ELSE (IF IsSchemaNode(Head(doc), "all") THEN ElementsOf(Head(doc)) ELSE <<>>)
         \o ExpectedAll(Tail(doc))

\* the names of the attributes of a complex type, in document order
ExpectedAttributes(doc) ==
    LET as == SelectSeq(doc, LAMBDA n : IsSchemaNode(n, "attribute"))
    IN  [i \in 1..Len(as) |-> as[i].name]

\* C21: decoding a well-formed complex type never returns an error, whatever
\* known, unknown and foreign children it has; the unknown and the foreign
\* children are skipped, every known child is decoded wherever it stands, and
\* the elements of an all particle are in the All list.
C21_DecodingNeverFails ==
    /\ ~decoder.err
    /\ (decoder.done /\ decoder.doc # <<>>) =>
          /\ ct.All = ExpectedAll(decoder.doc)
          /\ ct.Attributes = ExpectedAttributes(decoder.doc)
          /\ ct.Sequence = ExpectedSequence(decoder.doc)
          /\ ct.Choice = ExpectedChoice(decoder.doc)
          /\ ct.ComplexContent = (\E i \in 1..Len(decoder.doc) :
                                    IsSchemaNode(decoder.doc[i], "complexContent"))
          /\ ct.SimpleContent = (\E i \in 1..Len(decoder.doc) :
                                    IsSchemaNode(decoder.doc[i], "simpleContent"))

\* without an all particle the claim holds: a known child after a foreign
\* one is decoded
C21_SkippedThenDecoded ==
    /\ decoder.done
    /\ ~decoder.err
    /\ Len(decoder.doc) = 2
    /\ decoder.doc[1].space # xmlschema11
    /\ ct.Choice = <<[Name |-> "f", MinOccurs |-> "2"], [Name |-> "g", MinOccurs |-> "2"]>>

\* decoding fails on nothing but an all particle
C21_OnlyAllFails ==
    decoder.err => IsSchemaNode(decoder.doc[decoder.pos], "all")

(***************************************************************************)
(* Properties of generation: unresolved bases, declared and referred       *)
(* names, the files main writes.                                           *)
(***************************************************************************)
\* the namespace the base named in schema s belongs to
BaseNamespace(s, base) ==
    IF Len(RefParts(base)) = 2
    THEN (IF RefParts(base)[1] \in DOMAIN s.xmlns THEN s.xmlns[RefParts(base)[1]] ELSE "")
    ELSE s.tns

\* the names of the types the schemas of a namespace declare
Declared(ss, ns) == UNION {ss[i].types : i \in {j \in 1..Len(ss) : ss[j].tns = ns}}

\* a base that names neither a built-in type nor a declared one
Dangling(ss, s, base) ==
    /\ ~RefIsBuiltIn(base)
    /\ RefLocal(base) \notin Declared(ss, BaseNamespace(s, base))

HasDanglingBase(ss) ==
    \E i \in 1..Len(ss) : \E j \in 1..Len(ss[i].refs) : Dangling(ss, ss[i], ss[i].refs[j])

\* C22: a base that names neither a built-in type nor a type of the merged
\* schema set never makes decoding fail, and makes generation fail: Start
\* does not return a result generated from such a schema set.
C22_UnresolvedBaseReported ==
    /\ HasDanglingBase(wsdlFile.schemas) => err = ""
    /\ result.returned => ~HasDanglingBase(schemas)

\* decoding does succeed on a dangling base
C22_DecodedWithDanglingBase ==
    /\ pc = "traverse"
    /\ err = ""
    /\ HasDanglingBase(schemas)

\* what generation makes of the dangling base: a reference to a type of the
\* other package, written without any error
C22_DanglingNameGenerated ==
    /\ result.returned
    /\ HasDanglingBase(schemas)
    /\ nsToPkg # NoMapping
    /\ \E k \in DOMAIN generated.Types :
          /\ generated.Types[k].ns = "urn:a"
          /\ generated.Types[k].out # <<>>

\* C23: the name a type is declared under (replaceReservedWords, then the
\* configured makePublic) is the name toGoType returns for a reference to the
\* type by its bare name, for every name and both values of exportAllTypes.
C23_DeclaredIsReferred ==
    (/\ ident.made
     /\ ident.context = "type-name"
     /\ call.made
     /\ call.xsdType = ident.identifier) => call.value = ident.value

\* for an ordinary name and exported types the two names are the same
C23_SameNameReached ==
    /\ ident.made
    /\ ident.context = "type-name"
    /\ call.made
    /\ call.xsdType = ident.identifier
    /\ ident.identifier = <<"f", "o", "o">>
    /\ call.value = <<"F", "o", "o">>
    /\ ident.value = <<"F", "o", "o">>

\* C24: after a successful generation main goes on to write its files whether
\* or not the output directories exist: a step of main that creates the
\* package directory or a sub-package directory does not end the program.
C24_CreatedDirectoryNotFatal ==
    [][(pc \in {"mkdir", "mkdirSub"} /\ dirs' # dirs) => pc' # "fatal"]_vars

\* with every directory there before the run main writes the main file and
\* the server file
C24_WrittenWhenExisting ==
    /\ pc = "done"
    /\ MainFile \in files
    /\ ServerFile \in files
    /\ PkgPath \in dirs

====
